---- MODULE Spec2Model ----
(***************************************************************************)
(* Valuation engine of geek-valuation: condition resolution                *)
(* (constants.ts, valuation.ts), tier statistics (stats.ts), currency      *)
(* conversion (currency.ts) and the valuation report (valuation.ts).       *)
(*                                                                         *)
(* Representation.  A JavaScript string is a sequence of one-character     *)
(* strings, so that trim, toLowerCase and replace are computed.  A number  *)
(* of the price domain is an integer count of hundredths (AmountScale);    *)
(* whole-unit results (Math.round) are plain integers.  A weight is a      *)
(* fixed-point integer, W units to 1.0.  An optional value is a record     *)
(* with a "defined" field.                                                 *)
(***************************************************************************)
EXTENDS Integers, Sequences, FiniteSets, TLC

VARIABLES
  scraped,   \* scrapePriceHistory: the prices parsed from the page so far
  game,      \* the GameResult of prices.json
  scrapeRegion, \* ScrapeOptions.region of the scrape run
  options,   \* ValuationOptions of the valuation run
  locals,    \* generateValuationCsv: the locals of the loop pass over the game
  csvLines,  \* generateValuationCsv: the rows of the report (header left out)
  warned,    \* whether console.warn "No estimated value for" was issued
  pc,        \* the stage of the pipeline
  outcome,   \* how the last run of scrape or generateValuationCsv ended
  unknownCurrencies, \* currency.ts: the price strings parsePrice could not parse
  missingRates,      \* currency.ts: the currencies found without an exchange rate
  call,      \* the last call of a currency.ts / stats.ts function and its result
  ratesCache, \* the exchange-rates cache file: an entry for each base currency
  loaded,    \* the last call of loadExchangeRates and its result
  collection, \* the rows of the collection CSV
  pricesFile, \* the game results in prices.json
  scrapeOptions, \* the options of the scrape run
  scrapeRun,       \* the locals of scrape()
  browser    \* the browser of the run and the pages opened in it

pipelineVars ==
  <<scraped, game, scrapeRegion, options, locals, csvLines, warned, pc, outcome>>

diagnosticVars == <<unknownCurrencies, missingRates, call>>

ratesVars == <<ratesCache, loaded>>

currencyVars == <<diagnosticVars, ratesVars>>

runVars == <<collection, pricesFile, scrapeOptions, scrapeRun, browser>>

vars == <<pipelineVars, currencyVars, runVars>>

----------------------------------------------------------------------------
(* Strings *)

Upper == <<"A","B","C","D","E","F","G","H","I","J","K","L","M",
           "N","O","P","Q","R","S","T","U","V","W","X","Y","Z">>
Lower == <<"a","b","c","d","e","f","g","h","i","j","k","l","m",
           "n","o","p","q","r","s","t","u","v","w","x","y","z">>

WhiteSpace == {" ", "\t"}

\* String.prototype.toLowerCase
toLowerCase(s) ==
  [i \in 1..Len(s) |->
     IF \E k \in 1..Len(Upper) : Upper[k] = s[i]
     THEN Lower[CHOOSE k \in 1..Len(Upper) : Upper[k] = s[i]]
     ELSE s[i]]

\* String.prototype.trim
trim(s) ==
  LET keep == {i \in 1..Len(s) : s[i] \notin WhiteSpace}
  IN IF keep = {} THEN <<>>
     ELSE LET lo == CHOOSE i \in keep : \A j \in keep : i <= j
              hi == CHOOSE i \in keep : \A j \in keep : j <= i
          IN SubSeq(s, lo, hi)

\* String.prototype.replace(" ", "-"): the first blank only
replaceFirstSpace(s) ==
  LET sp == {i \in 1..Len(s) : s[i] = " "}
  IN IF sp = {} THEN s
     ELSE LET f == CHOOSE i \in sp : \A j \in sp : i <= j
          IN [i \in 1..Len(s) |-> IF i = f THEN "-" ELSE s[i]]

----------------------------------------------------------------------------
(* constants.ts: the condition system *)

Condition_NEW == <<"N","e","w">>
Condition_LIKE_NEW == <<"L","i","k","e"," ","N","e","w">>
Condition_VERY_GOOD == <<"V","e","r","y"," ","G","o","o","d">>
Condition_GOOD == <<"G","o","o","d">>
Condition_ACCEPTABLE == <<"A","c","c","e","p","t","a","b","l","e">>
Condition_UNKNOWN == <<"U","n","k","n","o","w","n">>

\* Object.values(Condition), in declaration order
Condition == <<Condition_NEW, Condition_LIKE_NEW, Condition_VERY_GOOD, Condition_GOOD, Condition_ACCEPTABLE>>

CONDITION_PRIORITY == <<Condition_NEW, Condition_LIKE_NEW, Condition_VERY_GOOD, Condition_GOOD, Condition_ACCEPTABLE>>

Canonical == {Condition[i] : i \in 1..Len(Condition)}

NEW_MAX_PLAYS == 1
LIKE_NEW_MAX_PLAYS == 10
VERY_GOOD_MAX_PLAYS == 15
GOOD_MAX_PLAYS == 25

DEFAULT_CONDITION == Condition_LIKE_NEW

\* An optional value: undefined / null, or a value
None == [defined |-> FALSE, v |-> <<>>]
Some(x) == [defined |-> TRUE, v |-> x]

\* game.numplays as valuation.ts reads it: undefined (no numplays column
\* value), a number, NaN (parseInt of a non-number) or null (NaN after
\* JSON.stringify / JSON.parse)
NoPlays == [kind |-> "undefined", n |-> 0]
NaNPlays == [kind |-> "NaN", n |-> 0]
NullPlays == [kind |-> "null", n |-> 0]
Plays(k) == [kind |-> "number", n |-> k]

\* numPlays <= bound in JavaScript: NaN compares false, null converts to 0
PlaysLeq_Strict(numPlays, bound) ==
  CASE numPlays.kind = "NaN" -> FALSE
    [] numPlays.kind = "null" -> 0 < bound
    [] OTHER -> numPlays.n < bound

PlaysLeq(numPlays, bound) ==
  CASE numPlays.kind = "NaN" -> FALSE
    [] numPlays.kind = "null" -> 0 <= bound
    [] OTHER -> numPlays.n <= bound

inferConditionFromPlays(numPlays) ==
  IF PlaysLeq(numPlays, NEW_MAX_PLAYS) THEN Condition_NEW
  ELSE IF PlaysLeq(numPlays, LIKE_NEW_MAX_PLAYS) THEN Condition_LIKE_NEW
  ELSE IF PlaysLeq(numPlays, VERY_GOOD_MAX_PLAYS) THEN Condition_VERY_GOOD
  ELSE IF PlaysLeq(numPlays, GOOD_MAX_PLAYS) THEN Condition_GOOD
  ELSE Condition_ACCEPTABLE

\* conditionText: an optional string.  The result is an optional Condition
\* (null is None).
parseConditionText(conditionText) ==
  IF ~conditionText.defined \/ conditionText.v = <<>>
     \/ trim(conditionText.v) = <<>>
  THEN None
  ELSE LET normalized == toLowerCase(trim(conditionText.v))
           hits == {i \in 1..Len(Condition) : toLowerCase(Condition[i]) = normalized}
       IN IF hits = {} THEN None
          ELSE Some(Condition[CHOOSE i \in hits : \A j \in hits : i <= j])

----------------------------------------------------------------------------
(* valuation.ts: determineCondition *)

\* The cascade with steps 2 and 3 exchanged
determineCondition_PlaysFirst(g, defaultCondition) ==
  LET parsedCondition == parseConditionText(g.conditiontext)
  IN IF parsedCondition.defined THEN parsedCondition.v
     ELSE IF g.numplays.kind # "undefined" THEN inferConditionFromPlays(g.numplays)
     ELSE IF defaultCondition.defined THEN defaultCondition.v
     ELSE DEFAULT_CONDITION

\* the CLI default returned without the test that it is set
determineCondition_NoGuard(g, defaultCondition) ==
  LET parsedCondition == parseConditionText(g.conditiontext)
  IN IF parsedCondition.defined THEN parsedCondition.v
     ELSE defaultCondition.v

determineCondition(g, defaultCondition) ==
  LET parsedCondition == parseConditionText(g.conditiontext)
  IN IF parsedCondition.defined THEN parsedCondition.v
     ELSE IF defaultCondition.defined THEN defaultCondition.v
     ELSE IF g.numplays.kind # "undefined" THEN inferConditionFromPlays(g.numplays)
     ELSE DEFAULT_CONDITION

----------------------------------------------------------------------------
(* Numbers *)

\* Hundredths: the scale of a price amount and of an exchange rate
AmountScale == 10 * 10
RateScale == 10 * 10

\* Math.round(n / d) for integers n and d > 0: the nearest integer, halves up
RoundDiv(n, d) == (2 * n + d) \div (2 * d)

Abs(x) == IF x < 0 THEN 0 - x ELSE x

RECURSIVE Pow2(_)
Pow2(n) == IF n = 0 THEN 1 ELSE 2 * Pow2(n - 1)

RECURSIVE SumSeq(_)
SumSeq(s) == IF s = <<>> THEN 0 ELSE Head(s) + SumSeq(Tail(s))

MinSeq(s) == CHOOSE x \in {s[i] : i \in 1..Len(s)} : \A j \in 1..Len(s) : x <= s[j]
MaxSeq(s) == CHOOSE x \in {s[i] : i \in 1..Len(s)} : \A j \in 1..Len(s) : s[j] <= x

----------------------------------------------------------------------------
(* Array.prototype.sort of the build (V8: a run is counted and made        *)
(* ascending, the rest is inserted by binary search).  An element is a     *)
(* record with the fields valid and t: the comparator is t1 - t2, and a    *)
(* NaN result (an invalid key) counts as 0.                                *)

Key(n) == [valid |-> TRUE, t |-> n]

CallCompare(a, b) == IF a.valid /\ b.valid THEN a.t - b.t ELSE 0

Reverse(s) == [i \in 1..Len(s) |-> s[Len(s) + 1 - i]]

RECURSIVE ExtendRun(_, _, _)
ExtendRun(s, isDescending, idx) ==
  IF idx > Len(s) THEN idx - 1
  ELSE LET order == CallCompare(s[idx], s[idx - 1])
       IN IF (isDescending /\ order >= 0) \/ (~isDescending /\ order < 0)
          THEN idx - 1
          ELSE ExtendRun(s, isDescending, idx + 1)

\* <<run length, the array with that run ascending>>
CountAndMakeRun(s) ==
  LET isDescending == CallCompare(s[2], s[1]) < 0
      runLength == ExtendRun(s, isDescending, 3)
  IN IF isDescending
     THEN <<runLength, Reverse(SubSeq(s, 1, runLength)) \o SubSeq(s, runLength + 1, Len(s))>>
     ELSE <<runLength, s>>

\* left and right count from 0, as in the build
RECURSIVE BinarySearch(_, _, _, _)
BinarySearch(s, pivot, left, right) ==
  IF left >= right THEN left
  ELSE LET mid == left + ((right - left) \div 2)
       IN IF CallCompare(pivot, s[mid + 1]) < 0
          THEN BinarySearch(s, pivot, left, mid)
          ELSE BinarySearch(s, pivot, mid + 1, right)

RECURSIVE BinaryInsertionSort(_, _)
BinaryInsertionSort(s, start) ==
  IF start > Len(s) THEN s
  ELSE LET pivot == s[start]
           left == BinarySearch(s, pivot, 0, start - 1)
       IN BinaryInsertionSort(
            SubSeq(s, 1, left) \o <<pivot>> \o SubSeq(s, left + 1, start - 1)
              \o SubSeq(s, start + 1, Len(s)),
            start + 1)

sort(s) ==
  IF Len(s) < 2 THEN s
  ELSE LET run == CountAndMakeRun(s)
       IN BinaryInsertionSort(run[2], run[1] + 1)

\* [...values].sort((a, b) => a - b) of numbers
sortNumbers(values) ==
  LET sorted == sort([i \in 1..Len(values) |-> Key(values[i])])
  IN [i \in 1..Len(values) |-> sorted[i].t]

----------------------------------------------------------------------------
(* currency.ts: conversion.  A value is a count of hundredths; a rate is a *)
(* count of hundredths of the currency per base unit.                      *)

\* the rate table of stats.test.ts and currency.test.ts
TestRates ==
  [base |-> "USD",
   rates |-> [c \in {"USD", "EUR", "SEK", "GBP"} |->
                CASE c = "USD" -> 100
                  [] c = "EUR" -> 92
                  [] c = "SEK" -> 1050
                  [] c = "GBP" -> 79]]

\* rates.rates[currency], 0 standing for undefined (both are falsy)
RateOf(rates, currency) ==
  IF currency \in DOMAIN rates.rates THEN rates.rates[currency] ELSE 0

\* the amount multiplied by the rate
convertToBase_Multiply(value, fromCurrency, rates) ==
  IF fromCurrency = rates.base THEN RoundDiv(value, AmountScale)
  ELSE IF RateOf(rates, fromCurrency) = 0 THEN RoundDiv(value, AmountScale)
  ELSE RoundDiv(value * RateOf(rates, fromCurrency), AmountScale * RateScale)

convertToBase(value, fromCurrency, rates) ==
  IF fromCurrency = rates.base THEN RoundDiv(value, AmountScale)
  ELSE IF RateOf(rates, fromCurrency) = 0 THEN RoundDiv(value, AmountScale)
  ELSE RoundDiv(value * RateScale, AmountScale * RateOf(rates, fromCurrency))

\* the product rounded down
convertFromBase_Floor(value, toCurrency, rates) ==
  IF toCurrency = rates.base THEN value \div AmountScale
  ELSE IF RateOf(rates, toCurrency) = 0 THEN value \div AmountScale
  ELSE (value * RateOf(rates, toCurrency)) \div (AmountScale * RateScale)

convertFromBase(value, toCurrency, rates) ==
  IF toCurrency = rates.base THEN RoundDiv(value, AmountScale)
  ELSE IF RateOf(rates, toCurrency) = 0 THEN RoundDiv(value, AmountScale)
  ELSE RoundDiv(value * RateOf(rates, toCurrency), AmountScale * RateScale)

----------------------------------------------------------------------------
(* currency.ts: parsePrice.  A character outside ASCII is written as its   *)
(* code point.  parseFloat reads a decimal literal with at most two        *)
(* fraction digits (no exponent, no "Infinity"), as the price texts of the *)
(* model have; its value is a count of hundredths.                         *)

Euro == "U+20AC"
Pound == "U+00A3"
Yen == "U+00A5"
Rupee == "U+20B9"
Ruble == "U+20BD"
Won == "U+20A9"
Shekel == "U+20AA"
Lira == "U+20BA"

\* the entries of CURRENCY_MAP in the order of Object.keys
CURRENCY_MAP ==
  << <<(<<Euro>>), (<<"E","U","R">>)>>,
     <<(<<Pound>>), (<<"G","B","P">>)>>,
     <<(<<Yen>>), (<<"J","P","Y">>)>>,
     <<(<<"J","P",Yen>>), (<<"J","P","Y">>)>>,
     <<(<<Rupee>>), (<<"I","N","R">>)>>,
     <<(<<Ruble>>), (<<"R","U","B">>)>>,
     <<(<<Won>>), (<<"K","R","W">>)>>,
     <<(<<Shekel>>), (<<"I","L","S">>)>>,
     <<(<<Lira>>), (<<"T","R","Y">>)>>,
     <<(<<"R","$">>), (<<"B","R","L">>)>>,
     <<(<<"k","r">>), (<<"S","E","K">>)>>,
     <<(<<"U","S","$">>), (<<"U","S","D">>)>>,
     <<(<<"C","A","$">>), (<<"C","A","D">>)>>,
     <<(<<"A","$">>), (<<"A","U","D">>)>>,
     <<(<<"N","Z","$">>), (<<"N","Z","D">>)>>,
     <<(<<"H","K","$">>), (<<"H","K","D">>)>>,
     <<(<<"S","$">>), (<<"S","G","D">>)>>,
     <<(<<"M","X","$">>), (<<"M","X","N">>)>>,
     <<(<<"$">>), (<<"U","S","D">>)>> >>

Digits == <<"0","1","2","3","4","5","6","7","8","9">>

IsDigit(c) == \E k \in 1..Len(Digits) : Digits[k] = c

DigitValue(c) == (CHOOSE k \in 1..Len(Digits) : Digits[k] = c) - 1

IsLetter(c) ==
  \/ \E k \in 1..Len(Upper) : Upper[k] = c
  \/ \E k \in 1..Len(Lower) : Lower[k] = c

\* String.prototype.toUpperCase
toUpperCase(s) ==
  [i \in 1..Len(s) |->
     IF \E k \in 1..Len(Lower) : Lower[k] = s[i]
     THEN Upper[CHOOSE k \in 1..Len(Lower) : Lower[k] = s[i]]
     ELSE s[i]]

\* String.prototype.startsWith
startsWith(s, prefix) ==
  /\ Len(prefix) <= Len(s)
  /\ SubSeq(s, 1, Len(prefix)) = prefix

\* String.prototype.slice(start)
slice(s, start) == SubSeq(s, start + 1, Len(s))

\* the text with its thousand separators left in
StripCommas_None(s) == s

\* replace(/,/g, "")
StripCommas(s) == SelectSeq(s, LAMBDA c : c # ",")

\* the number of digits of s from position i on
RECURSIVE DigitRun(_, _)
DigitRun(s, i) ==
  IF i > Len(s) \/ ~IsDigit(s[i]) THEN 0 ELSE 1 + DigitRun(s, i + 1)

\* the value of the digits s[i], ..., s[j]
RECURSIVE DigitsValue(_, _, _)
DigitsValue(s, i, j) ==
  IF j < i THEN 0 ELSE 10 * DigitsValue(s, i, j - 1) + DigitValue(s[j])

\* A number that may be NaN, in hundredths
NaNValue == [nan |-> TRUE, x |-> 0]
Value(x) == [nan |-> FALSE, x |-> x]

\* parseFloat: leading white space, a sign, digits, a point and digits; the
\* longest such prefix is read, NaN when it holds no digit
parseFloat(str) ==
  LET s == trim(str)
      signed == Len(s) > 0 /\ s[1] \in {"+", "-"}
      start == IF signed THEN 2 ELSE 1
      whole == DigitRun(s, start)
      point == start + whole
      hasPoint == point <= Len(s) /\ s[point] = "."
      fraction == IF hasPoint THEN DigitRun(s, point + 1) ELSE 0
      magnitude ==
        AmountScale * DigitsValue(s, start, start + whole - 1)
        + (IF fraction = 0 THEN 0
           ELSE IF fraction = 1 THEN 10 * DigitValue(s[point + 1])
           ELSE DigitsValue(s, point + 1, point + 2))
  IN IF whole + fraction = 0 THEN NaNValue
     ELSE Value(IF signed /\ s[1] = "-" THEN 0 - magnitude ELSE magnitude)

\* s matches [\d,]+\.?\d* from its first to its last character
IsNumberToken(s) ==
  LET head == {i \in 0..Len(s) : \A j \in 1..i : IsDigit(s[j]) \/ s[j] = ","}
      k == CHOOSE i \in head : \A j \in head : j <= i
  IN /\ k >= 1
     /\ \/ k = Len(s)
        \/ /\ s[k + 1] = "."
           /\ \A j \in (k + 2)..Len(s) : IsDigit(s[j])

\* the length of the white space of s from position i on
RECURSIVE SpaceRun(_, _)
SpaceRun(s, i) ==
  IF i > Len(s) \/ s[i] \notin WhiteSpace THEN 0 ELSE 1 + SpaceRun(s, i + 1)

NoParse == [isNull |-> TRUE, currency |-> <<>>, value |-> 0]
Parsed(currency, value) == [isNull |-> FALSE, currency |-> currency, value |-> value]

\* Object.keys(CURRENCY_MAP).sort((a, b) => b.length - a.length), each key
\* with its currency
sortedPrefixes ==
  LET sorted == sort([i \in 1..Len(CURRENCY_MAP) |->
                        [valid |-> TRUE, t |-> 0 - Len(CURRENCY_MAP[i][1]),
                         prefix |-> CURRENCY_MAP[i][1], code |-> CURRENCY_MAP[i][2]]])
  IN sorted

\* the value parsePrice reads after the prefix
PrefixValue(cleanText, prefix) == parseFloat(StripCommas(trim(slice(cleanText, Len(prefix)))))

\* Strategy 1: the first entry of sortedPrefixes the text starts with and
\* whose remainder is a number; 0 when there is none
PrefixHit(cleanText) ==
  LET hits == {i \in 1..Len(sortedPrefixes) :
                 /\ startsWith(cleanText, sortedPrefixes[i].prefix)
                 /\ ~PrefixValue(cleanText, sortedPrefixes[i].prefix).nan}
  IN IF hits = {} THEN 0 ELSE CHOOSE i \in hits : \A j \in hits : i <= j

\* Strategy 2: /^([A-Z]{3})\s*([\d,]+\.?\d*)$/i
prefixCodeMatch(cleanText) ==
  LET rest == slice(cleanText, 3 + SpaceRun(cleanText, 4))
  IN IF /\ Len(cleanText) >= 4
        /\ \A i \in 1..3 : IsLetter(cleanText[i])
        /\ IsNumberToken(rest)
     THEN Some(<<SubSeq(cleanText, 1, 3), rest>>)
     ELSE None

\* Strategy 3: /^([\d,]+\.?\d*)\s*([A-Z]{3})$/i
suffixMatch(cleanText) ==
  LET n == Len(cleanText)
      body == trim(SubSeq(cleanText, 1, n - 3))
  IN IF /\ n >= 4
        /\ \A i \in (n - 2)..n : IsLetter(cleanText[i])
        /\ SpaceRun(cleanText, 1) = 0
        /\ IsNumberToken(body)
     THEN Some(<<body, SubSeq(cleanText, n - 2, n)>>)
     ELSE None

\* no number is looked for
numberMatch_Never(cleanText) == FALSE

\* /([\d,]+\.?\d*)/ matches somewhere in the text
numberMatch(cleanText) ==
  \E i \in 1..Len(cleanText) : IsDigit(cleanText[i]) \/ cleanText[i] = ","

\* the value parsePrice returns
parsePrice(priceText) ==
  LET cleanText == trim(priceText)
      hit == PrefixHit(cleanText)
      m2 == prefixCodeMatch(cleanText)
      v2 == parseFloat(StripCommas(m2.v[2]))
      m3 == suffixMatch(cleanText)
      v3 == parseFloat(StripCommas(m3.v[1]))
  IN IF cleanText = <<>> THEN NoParse
     ELSE IF hit # 0
          THEN Parsed(sortedPrefixes[hit].code,
                      PrefixValue(cleanText, sortedPrefixes[hit].prefix).x)
     ELSE IF m2.defined /\ ~v2.nan THEN Parsed(toUpperCase(m2.v[1]), v2.x)
     ELSE IF m3.defined /\ ~v3.nan THEN Parsed(toUpperCase(m3.v[2]), v3.x)
     ELSE NoParse

\* whether parsePrice adds the text to unknownCurrencies
parsePriceUnknown(priceText) ==
  /\ parsePrice(priceText).isNull
  /\ trim(priceText) # <<>>
  /\ numberMatch(trim(priceText))

\* the set emptied before the entry is put in
SetAdd_Replace(set, x) == {x}

\* the set with one more entry
SetAdd(set, x) == set \cup {x}

\* missingRates after checkMissingRates(prices, rates)
RECURSIVE checkMissingRates(_, _, _)
checkMissingRates(missing, prices, rates) ==
  IF prices = <<>> THEN missing
  ELSE checkMissingRates(IF RateOf(rates, Head(prices).currency) = 0
                         THEN SetAdd(missing, Head(prices).currency)
                         ELSE missing,
                         Tail(prices), rates)

----------------------------------------------------------------------------
(* currency.ts: loadExchangeRates.  A rate of the API is a count of         *)
(* hundred-thousandths, a rate of a table a count of ten-thousandths        *)
(* (Math.round(rate * 10000) / 10000).                                      *)

RatePrecision == 100 * 100

\* getTodayDate()
Today == "2026-11-01"

NoRatesMap == [c \in {} |-> 0]

NoTable == [base |-> "", date |-> "", rates |-> NoRatesMap]

\* an entry of the cache file: cache[base], which may be undefined
NoEntry == [present |-> FALSE, table |-> NoTable]
Entry(table) == [present |-> TRUE, table |-> table]

\* the bases the cache file can hold an entry for
Bases == {"USD", "SEK"}

\* loadRatesCache when the file does not exist or cannot be parsed
EmptyCache == [b \in Bases |-> NoEntry]

\* what the request to the API gives: an error, or a date and the rates of
\* the other currencies (the API does not list the base itself)
FetchFailed == [ok |-> FALSE, date |-> "", rates |-> NoRatesMap]
FetchOk(date, rates) == [ok |-> TRUE, date |-> date, rates |-> rates]

fetchRatesFromApi(baseCurrency, data) ==
  [base |-> baseCurrency,
   date |-> data.date,
   rates |-> [c \in {baseCurrency} \cup DOMAIN data.rates |->
                IF c \in DOMAIN data.rates
                THEN RoundDiv(data.rates[c], 10)
                ELSE RatePrecision]]

\* stale only when there is no entry
isRatesStale_AbsentOnly(cache, baseCurrency) == ~cache[baseCurrency].present

isRatesStale(cache, baseCurrency) ==
  \/ ~cache[baseCurrency].present
  \/ cache[baseCurrency].table.date = ""
  \/ cache[baseCurrency].table.date # Today

\* loadExchangeRates(filePath, baseCurrency) on the cache file, the request
\* to the API ending as fetch: whether it threw, the table returned, whether
\* the API was asked, and the cache file afterwards
loadExchangeRates(cache, baseCurrency, fetch) ==
  IF isRatesStale(cache, baseCurrency)
  THEN IF fetch.ok
       THEN LET rates == fetchRatesFromApi(baseCurrency, fetch)
            IN [threw |-> FALSE, rates |-> rates, fetched |-> TRUE,
                cache |-> [cache EXCEPT ![baseCurrency] = Entry(rates)]]
       ELSE IF cache[baseCurrency].present
            THEN [threw |-> FALSE, rates |-> cache[baseCurrency].table, fetched |-> TRUE,
                  cache |-> cache]
            ELSE [threw |-> TRUE, rates |-> NoTable, fetched |-> TRUE, cache |-> cache]
  ELSE [threw |-> FALSE, rates |-> cache[baseCurrency].table, fetched |-> FALSE,
        cache |-> cache]

----------------------------------------------------------------------------
(* stats.ts: dates.  Time is counted in quarter days from "now"            *)
(* (new Date() of the run, taken as 1 Nov 2026 06:00 local time).  A sale  *)
(* date string parses to local midnight of its day, or to an Invalid Date. *)

InvalidDate == [valid |-> FALSE, t |-> 0]

Now == Key(0)

\* new Date(dateStr) on the date strings of the model
parseDate(dateStr) ==
  CASE dateStr = "Nov 2, 2026" -> Key(3)
    [] dateStr = "Nov 1, 2026" -> Key(0 - 1)
    [] dateStr = "November 1, 2026" -> Key(0 - 1)
    [] dateStr = "Nov 2, 2025" -> Key(0 - 1457)
    [] dateStr = "Nov 1, 2025" -> Key(0 - 1461)
    [] dateStr = "Nov 1, 2024" -> Key(0 - 2921)
    [] OTHER -> InvalidDate

\* 365.25 days, in quarter days
TIME_WEIGHT_HALF_LIFE_MS == 1461

\* cutoff.setMonth(cutoff.getMonth() - months) for months = 12 and the
\* model's "now": 1 Nov 2025 06:00, 365 days back
MonthsBack(now, months) == Key(now.t - (months * 1460) \div 12)

----------------------------------------------------------------------------
(* Fixed-point weights: W units to 1.0 *)

W == 100 * 100

\* Math.LN2 in units of 1/W
LN2 == (6931 * W) \div 10000

\* x^k / k! for 0 <= x < LN2, in units of 1/W
RECURSIVE ExpTerm(_, _)
ExpTerm(x, k) == IF k = 0 THEN W ELSE (ExpTerm(x, k - 1) * x) \div (W * k)

\* exp(-x) for 0 <= x < LN2 by its series
ExpNegSmall(x) ==
  ExpTerm(x, 0) - ExpTerm(x, 1) + ExpTerm(x, 2) - ExpTerm(x, 3)
  + ExpTerm(x, 4) - ExpTerm(x, 5) + ExpTerm(x, 6) - ExpTerm(x, 7)

\* exp(-x) for x >= 0: exp(-x) = 2^-n * exp(-r) with x = n * ln 2 + r
ExpNeg(x) ==
  LET n == x \div LN2
      r == x % LN2
  IN IF n > 20 THEN 0 ELSE ExpNegSmall(r) \div Pow2(n)

\* A weight that may be NaN
NaN == [nan |-> TRUE, x |-> 0]
Num(x) == [nan |-> FALSE, x |-> x]

\* a half-life of two years
calculateTimeWeight_TwoYears(saleDate, now) ==
  IF ~saleDate.valid \/ ~now.valid THEN NaN
  ELSE LET ageMs == now.t - saleDate.t
       IN IF ageMs <= 0 THEN Num(W)
          ELSE Num(ExpNeg((ageMs * LN2) \div (2 * TIME_WEIGHT_HALF_LIFE_MS)))

calculateTimeWeight(saleDate, now) ==
  IF ~saleDate.valid \/ ~now.valid THEN NaN
  ELSE LET ageMs == now.t - saleDate.t
       IN IF ageMs <= 0 THEN Num(W)
          ELSE Num(ExpNeg((ageMs * LN2) \div TIME_WEIGHT_HALF_LIFE_MS))

countRecentSales(dates, months, now) ==
  LET cutoff == MonthsBack(now, months)
  IN Cardinality({i \in 1..Len(dates) : dates[i].valid /\ dates[i].t >= cutoff.t})

REGION_CURRENCIES ==
  [r \in {"europe", "americas", "asia", "india", "oceania"} |->
     CASE r = "europe" -> {"SEK", "EUR", "DKK", "NOK", "GBP", "CHF", "PLN", "CZK",
                           "HUF", "RON", "BGN", "HRK", "ISK", "RUB", "UAH", "TRY"}
       [] r = "americas" -> {"USD", "CAD", "MXN", "BRL", "ARS", "CLP", "COP", "PEN"}
       [] r = "asia" -> {"JPY", "CNY", "KRW", "SGD", "HKD", "TWD", "THB", "MYR",
                         "PHP", "IDR", "VND"}
       [] r = "india" -> {"INR"}
       [] r = "oceania" -> {"AUD", "NZD"}]

DEFAULT_REGION == "europe"

\* 0.3 and 0.01 in units of 1/W
NON_REGIONAL_WEIGHT == (3 * W) \div 10
MINIMUM_PRICE_WEIGHT == W \div 100

\* the reduced weight whatever the regional data
getCurrencyWeight_NotAdaptive(currency, hasRegionalData, region) ==
  LET isInRegion == currency \in REGION_CURRENCIES[region]
  IN IF isInRegion THEN W ELSE NON_REGIONAL_WEIGHT

getCurrencyWeight(currency, hasRegionalData, region) ==
  LET isInRegion == currency \in REGION_CURRENCIES[region]
  IN IF ~hasRegionalData THEN W
     ELSE IF isInRegion THEN W
     ELSE NON_REGIONAL_WEIGHT

\* the weight without its minimum
getPriceWeight_NoFloor(value, median, iqr) ==
  IF iqr = 0 THEN W
  ELSE LET d2 == (value - median) * (value - median)
           den == 2 * iqr * iqr
           whole == d2 \div den
           x == whole * W + ((d2 % den) * W) \div den
       IN IF whole >= 10 THEN 0 ELSE ExpNeg(x)

\* exp(-distance^2 / 2) with distance = |value - median| / iqr, at least 0.01
getPriceWeight(value, median, iqr) ==
  IF iqr = 0 THEN W
  ELSE LET d2 == (value - median) * (value - median)
           den == 2 * iqr * iqr
           whole == d2 \div den
           x == whole * W + ((d2 % den) * W) \div den
           weight == IF whole >= 10 THEN 0 ELSE ExpNeg(x)
       IN IF weight > MINIMUM_PRICE_WEIGHT THEN weight ELSE MINIMUM_PRICE_WEIGHT

\* timeWeight * priceWeight * currencyWeight, in units of 1/(100 * W)
CombinedWeight(timeWeight, priceWeight, currencyWeight) ==
  IF timeWeight.nan THEN NaN
  ELSE Num((((timeWeight.x * priceWeight) \div W) * currencyWeight) \div 100)

\* the loop of calculateFullyWeightedMean from observation i on:
\* acc = [nan, weightedSum, totalWeight]
RECURSIVE WeightLoop(_, _, _, _, _, _, _, _, _, _)
WeightLoop(values, dates, currencies, median, iqr, region, now, hasRegionalData, i, acc) ==
  IF i > Len(values) THEN acc
  ELSE LET combinedWeight ==
             CombinedWeight(calculateTimeWeight(dates[i], now),
                            getPriceWeight(values[i], median, iqr),
                            getCurrencyWeight(currencies[i], hasRegionalData, region))
           next == IF acc.nan \/ combinedWeight.nan
                   THEN [nan |-> TRUE, weightedSum |-> 0, totalWeight |-> 0]
                   ELSE [nan |-> FALSE,
                         weightedSum |-> acc.weightedSum + values[i] * combinedWeight.x,
                         totalWeight |-> acc.totalWeight + combinedWeight.x]
       IN WeightLoop(values, dates, currencies, median, iqr, region, now,
                     hasRegionalData, i + 1, next)

calculateFullyWeightedMean(values, dates, currencies, median, iqr, region, now) ==
  IF Len(values) = 0 THEN 0
  ELSE LET regionalCount ==
             Cardinality({i \in 1..Len(currencies) :
                            currencies[i] \in REGION_CURRENCIES[region]})
           hasRegionalData == regionalCount >= 2
           acc == WeightLoop(values, dates, currencies, median, iqr, region, now,
                             hasRegionalData, 1,
                             [nan |-> FALSE, weightedSum |-> 0, totalWeight |-> 0])
       IN IF ~acc.nan /\ acc.totalWeight > 0
          THEN (acc.weightedSum \div acc.totalWeight)
               + (IF 2 * (acc.weightedSum % acc.totalWeight) >= acc.totalWeight
                  THEN 1 ELSE 0)
          ELSE 0

----------------------------------------------------------------------------
(* stats.ts: descriptive statistics *)

\* the upper of the two middle values for an even count
calculateMedian_Upper(values) ==
  IF Len(values) = 0 THEN 0
  ELSE LET sorted == sortNumbers(values)
           mid == Len(sorted) \div 2
       IN sorted[mid + 1]

calculateMedian(values) ==
  IF Len(values) = 0 THEN 0
  ELSE LET sorted == sortNumbers(values)
           mid == Len(sorted) \div 2
       IN IF Len(sorted) % 2 = 0
          THEN RoundDiv(sorted[mid] + sorted[mid + 1], 2)
          ELSE sorted[mid + 1]

\* the value at the floor of the index, without interpolation
calculatePercentile_Lower(values, percentile) ==
  IF Len(values) = 0 THEN 0
  ELSE LET sorted == sortNumbers(values)
           index == percentile * (Len(sorted) - 1)
       IN sorted[index \div 100 + 1]

\* index = (percentile / 100) * (n - 1), kept in hundredths
calculatePercentile(values, percentile) ==
  IF Len(values) = 0 THEN 0
  ELSE LET sorted == sortNumbers(values)
           index == percentile * (Len(sorted) - 1)
           lower == index \div 100
           upper == IF index % 100 = 0 THEN lower ELSE lower + 1
       IN IF lower = upper THEN sorted[lower + 1]
          ELSE RoundDiv(100 * sorted[lower + 1]
                          + (sorted[upper + 1] - sorted[lower + 1]) * (index - 100 * lower),
                        100)

\* price.condition || "Unknown"
ConditionKey(price) ==
  IF price.condition = <<>> THEN Condition_UNKNOWN ELSE price.condition

\* the keys of byCondition in insertion order
RECURSIVE MapKeys(_, _)
MapKeys(prices, keys) ==
  IF prices = <<>> THEN keys
  ELSE LET condition == ConditionKey(Head(prices))
       IN MapKeys(Tail(prices),
                  IF \E i \in 1..Len(keys) : keys[i] = condition
                  THEN keys ELSE Append(keys, condition))

\* the mean rounded down
Mean_Floor(usdValues) == SumSeq(usdValues) \div Len(usdValues)

Mean(usdValues) == RoundDiv(SumSeq(usdValues), Len(usdValues))

\* one pass of the loop over byCondition
ConditionStatsOf(condition, conditionPrices, rates, region) ==
  LET n == Len(conditionPrices)
      usdValues == [i \in 1..n |->
                      convertToBase(conditionPrices[i].value,
                                    conditionPrices[i].currency, rates)]
      saleDates == [i \in 1..n |-> parseDate(conditionPrices[i].saleDate)]
      currencies == [i \in 1..n |-> conditionPrices[i].currency]
      sortedByDate ==
        sort([i \in 1..n |-> [valid |-> saleDates[i].valid, t |-> saleDates[i].t,
                              saleDate |-> conditionPrices[i].saleDate]])
      p25 == calculatePercentile(usdValues, 25)
      p75 == calculatePercentile(usdValues, 75)
      iqr == p75 - p25
      median == calculateMedian(usdValues)
  IN [condition |-> condition,
      count |-> n,
      median |-> median,
      lowest |-> MinSeq(usdValues),
      highest |-> MaxSeq(usdValues),
      mean |-> Mean(usdValues),
      percentile25 |-> p25,
      percentile75 |-> p75,
      oldestSale |-> sortedByDate[1].saleDate,
      newestSale |-> sortedByDate[n].saleDate,
      weightedMean |-> calculateFullyWeightedMean(usdValues, saleDates, currencies,
                                                  median, iqr, region, Now),
      recentSalesCount |-> countRecentSales(saleDates, 12, Now)]

conditionOrder ==
  <<Condition_NEW, Condition_LIKE_NEW, Condition_VERY_GOOD, Condition_GOOD,
    Condition_ACCEPTABLE, Condition_UNKNOWN>>

\* conditionOrder.indexOf(condition), with -1 replaced by 999
OrderIndex(condition) ==
  IF \E i \in 1..Len(conditionOrder) : conditionOrder[i] = condition
  THEN (CHOOSE i \in 1..Len(conditionOrder) : conditionOrder[i] = condition) - 1
  ELSE 999

\* stats.sort(...)
SortStats(stats) ==
  LET sorted == sort([i \in 1..Len(stats) |->
                        [valid |-> TRUE, t |-> OrderIndex(stats[i].condition),
                         stat |-> stats[i]]])
  IN [i \in 1..Len(stats) |-> sorted[i].stat]

calculateStats(prices, rates, region) ==
  LET keys == MapKeys(prices, <<>>)
      stats == [k \in 1..Len(keys) |->
                  ConditionStatsOf(keys[k],
                                   SelectSeq(prices, LAMBDA p : ConditionKey(p) = keys[k]),
                                   rates, region)]
  IN SortStats(stats)

\* the three weights that the loop of calculateFullyWeightedMean gives to
\* each observation
LoopWeights(values, dates, currencies, median, iqr, region, now) ==
  LET regionalCount ==
        Cardinality({i \in 1..Len(currencies) :
                       currencies[i] \in REGION_CURRENCIES[region]})
      hasRegionalData == regionalCount >= 2
  IN [i \in 1..Len(values) |->
        [timeWeight |-> calculateTimeWeight(dates[i], now),
         priceWeight |-> getPriceWeight(values[i], median, iqr),
         currencyWeight |-> getCurrencyWeight(currencies[i], hasRegionalData, region)]]

\* what one pass of the loop over byCondition hands to
\* calculateFullyWeightedMean, with the weights computed there
ConditionGroupOf(condition, conditionPrices, rates, region) ==
  LET n == Len(conditionPrices)
      usdValues == [i \in 1..n |->
                      convertToBase(conditionPrices[i].value,
                                    conditionPrices[i].currency, rates)]
      saleDates == [i \in 1..n |-> parseDate(conditionPrices[i].saleDate)]
      currencies == [i \in 1..n |-> conditionPrices[i].currency]
      p25 == calculatePercentile(usdValues, 25)
      p75 == calculatePercentile(usdValues, 75)
      iqr == p75 - p25
      median == calculateMedian(usdValues)
  IN [condition |-> condition,
      usdValues |-> usdValues,
      saleDates |-> saleDates,
      currencies |-> currencies,
      median |-> median,
      iqr |-> iqr,
      weights |-> LoopWeights(usdValues, saleDates, currencies, median, iqr, region, Now)]

\* the groups of byCondition in insertion order
ConditionGroups(prices, rates, region) ==
  LET keys == MapKeys(prices, <<>>)
  IN [k \in 1..Len(keys) |->
        ConditionGroupOf(keys[k],
                         SelectSeq(prices, LAMBDA p : ConditionKey(p) = keys[k]),
                         rates, region)]

----------------------------------------------------------------------------
(* valuation.ts: findCalcForCondition and the loop of generateValuationCsv *)

\* 0.6, in tenths
NO_MARKET_DATA_FALLBACK_MULTIPLIER == 6

NoMatch == [isNull |-> TRUE]
Match(stats, matchedCondition) ==
  [isNull |-> FALSE, stats |-> stats, matchedCondition |-> matchedCondition]

\* calc.find(c => c.condition === condition): 0 when there is none
FindIndex(calc, condition) ==
  LET hits == {i \in 1..Len(calc) : calc[i].condition = condition}
  IN IF hits = {} THEN 0 ELSE CHOOSE i \in hits : \A j \in hits : i <= j

\* the first tier of CONDITION_PRIORITY that has statistics: 0 when none has
FirstPriority(calc) ==
  LET hits == {k \in 1..Len(CONDITION_PRIORITY) : FindIndex(calc, CONDITION_PRIORITY[k]) # 0}
  IN IF hits = {} THEN 0 ELSE CHOOSE k \in hits : \A j \in hits : k <= j

\* the priority walk taken before the exact match
findCalcForCondition_NoExact(calc, targetCondition) ==
  IF Len(calc) = 0 THEN NoMatch
  ELSE IF FirstPriority(calc) # 0
  THEN Match(calc[FindIndex(calc, CONDITION_PRIORITY[FirstPriority(calc)])],
             CONDITION_PRIORITY[FirstPriority(calc)])
  ELSE Match(calc[1], calc[1].condition)

\* the priority walk from Acceptable up to New
findCalcForCondition_Reverse(calc, targetCondition) ==
  LET hits == {k \in 1..Len(CONDITION_PRIORITY) : FindIndex(calc, CONDITION_PRIORITY[k]) # 0}
      last == CHOOSE k \in hits : \A j \in hits : j <= k
  IN IF Len(calc) = 0 THEN NoMatch
     ELSE IF FindIndex(calc, targetCondition) # 0
     THEN Match(calc[FindIndex(calc, targetCondition)], targetCondition)
     ELSE IF hits # {}
     THEN Match(calc[FindIndex(calc, CONDITION_PRIORITY[last])], CONDITION_PRIORITY[last])
     ELSE Match(calc[1], calc[1].condition)

\* null when no tier of the priority order has statistics
findCalcForCondition_NoFirst(calc, targetCondition) ==
  IF Len(calc) = 0 THEN NoMatch
  ELSE IF FindIndex(calc, targetCondition) # 0
  THEN Match(calc[FindIndex(calc, targetCondition)], targetCondition)
  ELSE IF FirstPriority(calc) # 0
  THEN Match(calc[FindIndex(calc, CONDITION_PRIORITY[FirstPriority(calc)])],
             CONDITION_PRIORITY[FirstPriority(calc)])
  ELSE NoMatch

findCalcForCondition(calc, targetCondition) ==
  IF Len(calc) = 0 THEN NoMatch
  ELSE IF FindIndex(calc, targetCondition) # 0
  THEN Match(calc[FindIndex(calc, targetCondition)], targetCondition)
  ELSE IF FirstPriority(calc) # 0
  THEN Match(calc[FindIndex(calc, CONDITION_PRIORITY[FirstPriority(calc)])],
             CONDITION_PRIORITY[FirstPriority(calc)])
  ELSE Match(calc[1], calc[1].condition)

\* game.purchasePrice: null, or an object of which valueInUSD is read
NoPurchase == [isNull |-> TRUE, valueInUSD |-> 0]
Purchase(usd) == [isNull |-> FALSE, valueInUSD |-> usd]

StrMarket == <<"m","a","r","k","e","t",":">>
StrFallbackMark == <<"(","f","a","l","l","b","a","c","k",")">>
StrFallback == <<"f","a","l","l","b","a","c","k">>

\* condition.toLowerCase().replace(" ", "-")
Kebab(condition) == replaceFirstSpace(toLowerCase(condition))

\* half of the purchase price
FallbackEstimate_Half(purchasePriceUSD) == RoundDiv(purchasePriceUSD * 5, 10)

\* Math.round(purchasePriceUSD * NO_MARKET_DATA_FALLBACK_MULTIPLIER)
FallbackEstimate(purchasePriceUSD) ==
  RoundDiv(purchasePriceUSD * NO_MARKET_DATA_FALLBACK_MULTIPLIER, 10)

\* One pass of the loop over games: the locals at its end
ValueGame(g, opts, rates) ==
  LET targetCurrency == IF opts.targetCurrency = "" THEN "SEK" ELSE opts.targetCurrency
      purchasePriceUSD == IF g.purchasePrice.isNull THEN 0 ELSE g.purchasePrice.valueInUSD
      purchasePrice == convertFromBase(purchasePriceUSD * AmountScale, targetCurrency, rates)
      condition == determineCondition(g, opts.defaultCondition)
      hasMarket == Len(g.prices) > 0 /\ Len(g.calc) > 0
      match == findCalcForCondition(g.calc, condition)
      matched == hasMarket /\ ~match.isNull
      estimatedValueUSD ==
        IF matched THEN match.stats.weightedMean ELSE FallbackEstimate(purchasePriceUSD)
      source ==
        IF matched
        THEN IF match.matchedCondition = condition
             THEN StrMarket \o Kebab(condition)
             ELSE StrMarket \o Kebab(match.matchedCondition) \o StrFallbackMark
        ELSE StrFallback
      estimatedValue == convertFromBase(estimatedValueUSD * AmountScale, targetCurrency, rates)
  IN [gameCondition |-> condition,
      purchasePriceUSD |-> purchasePriceUSD,
      purchasePrice |-> purchasePrice,
      estimatedValueUSD |-> estimatedValueUSD,
      estimatedValue |-> estimatedValue,
      usedCondition |-> IF matched THEN match.matchedCondition ELSE condition,
      source |-> source,
      withPrices |-> hasMarket,
      warn |-> estimatedValue = 0]

----------------------------------------------------------------------------
(* The scraper: loadExistingResults, getPurchasePrice, scrapeGame and the  *)
(* locals of scrape().  A game result of a run carries its objectid.       *)

MAX_RETRIES == 2

\* JSON.parse(JSON.stringify(numplays)): NaN is written as null
JsonNumber(numplays) == IF numplays.kind = "NaN" THEN NullPlays ELSE numplays

CsvRow(objectid, conditiontext, numplays, pricepaid, pp_currency) ==
  [objectid |-> objectid, conditiontext |-> conditiontext, numplays |-> numplays,
   pricepaid |-> pricepaid, pp_currency |-> pp_currency]

GameResult(objectid, purchasePrice, prices, calc, conditiontext, numplays) ==
  [objectid |-> objectid, purchasePrice |-> purchasePrice, prices |-> prices,
   calc |-> calc, conditiontext |-> conditiontext, numplays |-> numplays]

\* row.conditiontext || undefined
OrUndefined(text) == IF text.defined /\ text.v # <<>> THEN text ELSE None

\* getPurchasePrice(row, rates): null, or the price paid in USD
getPurchasePrice(row, rates) ==
  LET value == parseFloat(row.pricepaid)
  IN IF row.pricepaid = <<>> \/ row.pp_currency = "" THEN NoPurchase
     ELSE IF value.nan \/ value.x <= 0 THEN NoPurchase
     ELSE Purchase(convertToBase(value.x, row.pp_currency, rates))

\* the purchase price is in a currency without a rate
UnknownConversion(row, rates) ==
  /\ ~getPurchasePrice(row, rates).isNull
  /\ RateOf(rates, row.pp_currency) = 0
  /\ row.pp_currency # rates.base

\* result.prices.length > 0 && result.calc.length > 0
Cacheable(result) == Len(result.prices) > 0 /\ Len(result.calc) > 0

\* loadExistingResults(filePath): the map objectid -> result; of two entries
\* with the same objectid the later one is kept
loadExistingResults(file) ==
  LET kept == {k \in 1..Len(file) : Cacheable(file[k])}
      last(id) == CHOOSE k \in kept :
                    /\ file[k].objectid = id
                    /\ \A j \in kept : file[j].objectid = id => j <= k
  IN [id \in {file[k].objectid : k \in kept} |-> file[last(id)]]

NoResults == [id \in {} |-> 0]

\* JSON.stringify(results, null, 2) read back
Stringify(results) ==
  [k \in 1..Len(results) |-> [results[k] EXCEPT !.numplays = JsonNumber(@)]]

\* The elements of results: an element pushed for a cached game is the
\* object of existingResults itself, one pushed for a scraped game its own
Pushed(isCached, i, objectid, result) ==
  [cached |-> isCached, row |-> i, objectid |-> objectid, result |-> result]

\* results as the caller of scrape() and JSON.stringify read it
Results(r) ==
  [k \in 1..Len(r.results) |->
     IF r.results[k].cached
     THEN r.existingResults[r.results[k].objectid]
     ELSE r.results[k].result]

\* the cached result after the lines that refresh it from its row
Refreshed(cached, row, rates, region) ==
  [cached EXCEPT
     !.purchasePrice = getPurchasePrice(row, rates),
     !.conditiontext = OrUndefined(row.conditiontext),
     !.numplays = row.numplays,
     !.calc = calculateStats(cached.prices, rates, region)]

\* what scrapeGame returns from the attempt that succeeds
scrapeGame(row, rates, prices) ==
  GameResult(row.objectid, getPurchasePrice(row, rates), prices, <<>>,
             OrUndefined(row.conditiontext), row.numplays)

\* result.calc = calculateStats(result.prices, exchangeRates, region)
WithStats(result, rates, region) ==
  [result EXCEPT !.calc = calculateStats(result.prices, rates, region)]

NoRates == [base |-> "", rates |-> NoRatesMap]

NoScrapeOptions == [force |-> FALSE, region |-> ""]

NoRun ==
  [pc |-> "start", i |-> 0, region |-> "", exchangeRates |-> NoRates,
   existingResults |-> NoResults, results |-> <<>>,
   skippedCount |-> 0, errorCount |-> 0, scrapedCount |-> 0, totalPrices |-> 0,
   errors |-> <<>>, unknownCurrencyConversions |-> <<>>, fileAtStart |-> <<>>]

NoBrowser == [launched |-> FALSE, closed |-> FALSE, pages |-> <<>>]

\* scrapePriceHistory(page, objectid): the request for the page of the
\* game gets no response, a status other than 200 or an error (a navigation
\* timeout among them), all of which end in the empty list being returned,
\* or it gets the page with the prices found in it
scrapePriceHistory(request, found) == IF request = "ok" THEN found ELSE <<>>

\* a page of the browser: the row it was opened for, whether the attempt
\* made in it threw (in page.setViewport or page.setUserAgent), how the
\* request made in it ended ("none" when the attempt threw before it),
\* whether it has been closed
Page(i, threw, request) ==
  [row |-> i, threw |-> threw, request |-> request, closed |-> TRUE]

\* for (attempt = 0; attempt <= MAX_RETRIES; attempt++) of scrapeGame for
\* row i, the first `failed` attempts throwing: the pages opened and closed
RECURSIVE AttemptLoop(_, _, _, _)
AttemptLoop(i, failed, request, attempt) ==
  IF attempt > MAX_RETRIES THEN <<>>
  ELSE IF attempt < failed
       THEN <<Page(i, TRUE, "none")>> \o AttemptLoop(i, failed, request, attempt + 1)
       ELSE <<Page(i, FALSE, request)>>

PagesOf(i, failed, request) == AttemptLoop(i, failed, request, 0)

----------------------------------------------------------------------------
(* Inputs *)

MaxPrices == 3
MaxPlays == 27

Price(currency, value, condition, saleDate) ==
  [currency |-> currency, value |-> value, condition |-> condition, saleDate |-> saleDate]

Condition_DAMAGED == <<"D","a","m","a","g","e","d">>

\* Rows of the price-history table after parsePrice; values in hundredths
Observations ==
  { Price("USD", 5000, Condition_NEW, "Nov 1, 2026"),
    Price("USD", 6000, Condition_NEW, "Nov 1, 2026"),
    Price("USD", 7000, Condition_NEW, "Nov 1, 2025"),
    Price("EUR", 9200, Condition_LIKE_NEW, "Nov 2, 2025"),
    Price("SEK", 63000, Condition_VERY_GOOD, "Nov 1, 2024"),
    Price("GBP", 4550, Condition_GOOD, "Nov 2, 2026"),
    Price("SEK", 52500, Condition_ACCEPTABLE, ""),
    Price("EUR", 3000, <<>>, "November 1, 2026"),
    Price("USD", 2000, Condition_UNKNOWN, "Nov 1, 2026"),
    Price("JPY", 8000, Condition_DAMAGED, "Nov 1, 2026") }

Text(chars) == [defined |-> TRUE, v |-> chars]

\* conditiontext values of a collection row
ConditionTexts ==
  { None,
    Text(<<>>),
    Text(<<" "," ">>),
    Text(<<"N","e","w">>),
    Text(<<" ","l","i","k","e"," ","N","E","W"," ">>),
    Text(<<"V","E","R","Y"," ","G","O","O","D">>),
    Text(<<"g","o","o","d">>),
    Text(<<"A","c","c","e","p","t","a","b","l","e","\t">>),
    Text(<<"U","n","k","n","o","w","n">>),
    Text(<<"m","i","n","t">>),
    Text(<<"L","i","k","e","N","e","w">>) }

PlayCounts ==
  {NoPlays, NaNPlays, NullPlays, Plays(1000000)} \cup {Plays(k) : k \in (0 - 1)..MaxPlays}

DefaultConditions == {None} \cup {Some(Condition[i]) : i \in 1..Len(Condition)}

EmptyGame ==
  [purchasePrice |-> NoPurchase, prices |-> <<>>, calc |-> <<>>,
   conditiontext |-> None, numplays |-> NoPlays]

NoOptions == [defaultCondition |-> None, targetCurrency |-> ""]

NoLocals ==
  [gameCondition |-> <<>>, purchasePriceUSD |-> 0, purchasePrice |-> 0,
   estimatedValueUSD |-> 0, estimatedValue |-> 0, usedCondition |-> <<>>,
   source |-> <<>>, withPrices |-> FALSE, warn |-> FALSE]

\* Collection rows of the pipeline: conditiontext, numplays, purchase price
Rows ==
  { [conditiontext |-> None, numplays |-> NoPlays, purchasePrice |-> NoPurchase],
    [conditiontext |-> None, numplays |-> Plays(0), purchasePrice |-> Purchase(1000)],
    [conditiontext |-> Text(<<"V","E","R","Y"," ","G","O","O","D">>), numplays |-> Plays(0),
     purchasePrice |-> Purchase(33)],
    [conditiontext |-> Text(<<"m","i","n","t">>), numplays |-> Plays(20),
     purchasePrice |-> Purchase(0)],
    [conditiontext |-> None, numplays |-> NaNPlays, purchasePrice |-> Purchase(1)],
    [conditiontext |-> None, numplays |-> Plays(30), purchasePrice |-> NoPurchase] }

Regions == {"europe", "americas"}

ValuationOptionsSet ==
  { [defaultCondition |-> None, targetCurrency |-> ""],
    [defaultCondition |-> None, targetCurrency |-> "USD"],
    [defaultCondition |-> Some(Condition_GOOD), targetCurrency |-> "USD"] }

\* The rate table of a valuation in SEK whose map has no entry for its base
SekRates ==
  [base |-> "SEK",
   rates |-> [c \in {"USD", "EUR"} |-> CASE c = "USD" -> 10 [] c = "EUR" -> 9]]

RateTables == {TestRates, SekRates}

Currencies == {"USD", "EUR", "SEK", "GBP", "JPY"}

MaxAmount == 100

\* Amounts in hundredths: the whole amounts up to MaxAmount and some others
Amounts == {AmountScale * a : a \in 0..MaxAmount} \cup {49, 50, 150, 4550, 0 - 250}

\* The amounts converted between the other calls
FewAmounts == {0, 50, 33 * AmountScale, 100 * AmountScale}

\* How a run ended: it returned to its caller (with or without the table of
\* rates) or threw
NotRun == [op |-> "none", threw |-> FALSE, rates |-> FALSE]
Returned(op, rates) == [op |-> op, threw |-> FALSE, rates |-> rates]
Threw(op) == [op |-> op, threw |-> TRUE, rates |-> FALSE]

\* A rate table of another day
OtherRates ==
  [base |-> "USD",
   rates |-> [c \in {"USD", "EUR", "SEK", "GBP"} |->
                CASE c = "USD" -> 100
                  [] c = "EUR" -> 80
                  [] c = "SEK" -> 1000
                  [] c = "GBP" -> 79]]

\* What the loadExchangeRates handed to scrape() does: it throws, or it
\* returns a table
LoadOutcomes ==
  { [threw |-> TRUE, rates |-> NoRates],
    [threw |-> FALSE, rates |-> TestRates],
    [threw |-> FALSE, rates |-> OtherRates] }

ScrapeOptionsSet ==
  { [force |-> FALSE, region |-> ""],
    [force |-> FALSE, region |-> "americas"],
    [force |-> TRUE, region |-> ""] }

\* Rows of a collection; the game "1" is owned twice
RowOne == CsvRow("1", Text(<<"N","e","w">>), Plays(0), <<"4","5">>, "EUR")
RowOneAgain == CsvRow("1", Text(<<>>), Plays(30), <<>>, "")
RowTwo == CsvRow("2", Text(<<"m","i","n","t">>), NaNPlays, <<"1","0",".","5">>, "JPY")
RowThree == CsvRow("3", None, NoPlays, <<"f","r","e","e">>, "USD")

\* Ten more games of the collection, none of them in prices.json
MoreIds == <<"4", "5", "6", "7", "8", "9", "10", "11", "12", "13">>
MoreRows == [k \in 1..Len(MoreIds) |-> CsvRow(MoreIds[k], None, NoPlays, <<>>, "")]

Collections ==
  { <<RowOne, RowTwo, RowThree>>,
    <<RowTwo, RowOne>>,
    <<RowOne, RowOneAgain>>,
    <<RowThree>>,
    MoreRows \o <<RowOne, RowTwo>> }

FoundPrices ==
  <<Price("EUR", 9200, Condition_LIKE_NEW, "Nov 2, 2025"),
    Price("JPY", 8000, Condition_NEW, "Nov 1, 2026")>>

\* What scrapePriceHistory returns for a game when it does not throw
ScrapedPrices == {<<>>, FoundPrices}

\* The attempts of scrapeGame that throw before one succeeds; with
\* MAX_RETRIES + 1 of them none succeeds
FailedAttempts == {0, MAX_RETRIES, MAX_RETRIES + 1}

\* How the request for the price-history page of a game ends
Requests == {"ok", "no response", "not 200", "timeout"}

\* How scraping a game may go: the attempts that throw, the end of the
\* request and the prices of the page; the ten games are always scraped at
\* the first attempt
PriceHistory(objectid) ==
  IF \E k \in 1..Len(MoreIds) : MoreIds[k] = objectid
  THEN {<<0, "ok", FoundPrices>>}
  ELSE {h \in FailedAttempts \X Requests \X ScrapedPrices :
          /\ h[1] > MAX_RETRIES => (h[2] = "ok" /\ h[3] = <<>>)
          /\ h[2] # "ok" => h[3] = <<>>}

StoredPrices ==
  <<Price("USD", 5000, Condition_NEW, "Nov 1, 2026"),
    Price("EUR", 9200, Condition_NEW, "Nov 2, 2025")>>

\* Statistics of an earlier day, when the first of the stored prices was
\* the only one
StoredStats ==
  <<[condition |-> Condition_NEW, count |-> 1, median |-> 50, lowest |-> 50,
     highest |-> 50, mean |-> 50, percentile25 |-> 50, percentile75 |-> 50,
     oldestSale |-> "Nov 1, 2026", newestSale |-> "Nov 1, 2026",
     weightedMean |-> 50, recentSalesCount |-> 1]>>

\* Entries of prices.json: one written for another row of the collection
\* with statistics of an earlier day, one of a game no price was found for,
\* and one with prices and no statistics
StoredOne ==
  GameResult("1", Purchase(7), StoredPrices, StoredStats, Text(<<"g","o","o","d">>), Plays(3))
StoredTwo == GameResult("2", NoPurchase, <<>>, <<>>, None, NullPlays)
StoredThree == GameResult("3", NoPurchase, StoredPrices, <<>>, None, NoPlays)

PricesFiles ==
  { <<>>,
    <<StoredOne, StoredTwo>>,
    <<StoredOne, StoredTwo, StoredThree>> }

NotLoaded ==
  [base |-> "", fetch |-> FetchFailed, threw |-> FALSE, fetched |-> FALSE, rates |-> NoTable]

\* Rates of the API for a base, in hundred-thousandths
ApiRates(baseCurrency) ==
  IF baseCurrency = "USD"
  THEN { [c \in {"EUR", "SEK"} |-> CASE c = "EUR" -> 92345 [] c = "SEK" -> 1050000],
         [c \in {"EUR", "SEK"} |-> CASE c = "EUR" -> 91004 [] c = "SEK" -> 1061235] }
  ELSE { [c \in {"EUR", "USD"} |-> CASE c = "EUR" -> 8795 [] c = "USD" -> 9524] }

\* The dates of the API: today, or the last day rates were published
ApiDates == {Today, "2026-10-30"}

FetchOutcomes(baseCurrency) ==
  {FetchFailed} \cup {FetchOk(d, r) : d \in ApiDates, r \in ApiRates(baseCurrency)}

\* An entry the cache file may hold for a base when the program starts:
\* none, one of today, one of another day, one without a date
StoredTable(baseCurrency, date) ==
  [base |-> baseCurrency, date |-> date,
   rates |-> [c \in {baseCurrency, "EUR"} |->
                IF c = baseCurrency THEN RatePrecision ELSE 9000]]

StoredEntries(baseCurrency) ==
  {NoEntry} \cup {Entry(StoredTable(baseCurrency, d)) : d \in {Today, "2026-10-01", ""}}

NoCall ==
  [op |-> "none", text |-> <<>>, value |-> 0, currency |-> "", rates |-> TestRates,
   prices |-> <<>>, chained |-> 0 - 1, parsed |-> NoParse, number |-> 0, stats |-> <<>>,
   region |-> DEFAULT_REGION, groups |-> <<>>, median |-> 0, iqr |-> 0, weight |-> Num(0)]

\* Price cells of the price-history table
PriceTexts ==
  { <<"$","2","5",".","0","0">>,
    <<"$","2","5">>,
    <<Euro,"3","0">>,
    <<Euro,"4","5",".","5","0">>,
    <<Pound,"2","0">>,
    <<"U","S","$","2","5">>,
    <<"C","A","$","3","0">>,
    <<"A","$","3","5">>,
    <<"J","P",Yen,"9","0","0">>,
    <<"k","r"," ","5","0">>,
    <<"C","H","F"," ","5","0">>,
    <<"d","k","k","1","0","0">>,
    <<"1","0","0"," ","S","E","K">>,
    <<"5","0",".","0","0"," ","E","U","R">>,
    <<"$","1",",","5","0","0">>,
    <<"1",",","0","0","0"," ","S","E","K">>,
    <<" ","$"," ","7"," ">>,
    <<"$","2","5"," ","U","S","D">>,
    <<>>,
    <<" "," ">>,
    <<"f","r","e","e">>,
    <<"2","5">>,
    <<"$","a","b","c"," ","5">>,
    <<"U","S","$">>,
    <<"E","U","R","O"," ","3","0">> }

\* Price lists handed to checkMissingRates and calculateStats on their own
PriceLists ==
  { <<>>,
    <<Price("USD", 5000, Condition_NEW, "Nov 1, 2026")>>,
    <<Price("JPY", 8000, Condition_NEW, "Nov 1, 2026"),
      Price("EUR", 9200, Condition_NEW, "Nov 1, 2025")>>,
    <<Price("CAD", 3000, Condition_GOOD, "Nov 1, 2026"),
      Price("SEK", 63000, Condition_GOOD, "Nov 1, 2026")>> }

----------------------------------------------------------------------------
(* The pipeline: scrape, statistics, valuation report *)

Init ==
  /\ scraped = <<>>
  /\ game = EmptyGame
  /\ scrapeRegion = DEFAULT_REGION
  /\ options = NoOptions
  /\ locals = NoLocals
  /\ csvLines = <<>>
  /\ warned = FALSE
  /\ pc = "scrape"
  /\ outcome = NotRun
  /\ unknownCurrencies = {}
  /\ missingRates = {}
  /\ call = NoCall
  /\ ratesCache = EmptyCache
  /\ loaded = NotLoaded
  /\ collection = <<>>
  /\ pricesFile = <<>>
  /\ scrapeOptions = NoScrapeOptions
  /\ scrapeRun = NoRun
  /\ browser = NoBrowser

\* scrapePriceHistory: one parsed row of the table is pushed
ScrapePriceRow(obs) ==
  /\ pc = "scrape"
  /\ Len(scraped) < MaxPrices
  /\ scraped' = Append(scraped, obs)
  /\ UNCHANGED <<game, scrapeRegion, options, locals, csvLines, warned, pc, outcome>>
  /\ UNCHANGED currencyVars
  /\ UNCHANGED runVars

\* scrape(): the game's result is built from its row and its prices, the
\* currencies without a rate are recorded, its statistics are calculated and
\* prices.json is written
ScrapeGame(row, rgn) ==
  /\ pc = "scrape"
  /\ game' = [purchasePrice |-> row.purchasePrice,
              prices |-> scraped,
              calc |-> calculateStats(scraped, TestRates, rgn),
              conditiontext |-> row.conditiontext,
              numplays |-> JsonNumber(row.numplays)]
  /\ scrapeRegion' = rgn
  /\ pc' = "scraped"
  /\ missingRates' = checkMissingRates(missingRates, scraped, TestRates)
  /\ outcome' = Returned("scrape", TRUE)
  /\ UNCHANGED <<scraped, options, locals, csvLines, warned, unknownCurrencies, call>>
  /\ UNCHANGED ratesVars
  /\ UNCHANGED runVars

\* generateValuationCsv(options) on the prices.json written by the scrape,
\* loadExchangeRates returning the table
GenerateValuationCsv(opts) ==
  /\ pc = "scraped"
  /\ options' = opts
  /\ locals' = ValueGame(game, opts, TestRates)
  /\ csvLines' = Append(csvLines,
                        [purchasePrice |-> locals'.purchasePrice,
                         estimatedValue |-> locals'.estimatedValue,
                         condition |-> locals'.usedCondition,
                         source |-> locals'.source])
  /\ warned' = locals'.warn
  /\ pc' = "valued"
  /\ outcome' = Returned("generateValuationCsv", TRUE)
  /\ UNCHANGED <<scraped, game, scrapeRegion>>
  /\ UNCHANGED currencyVars
  /\ UNCHANGED runVars

\* generateValuationCsv(options), whatever the options, when
\* loadExchangeRates throws: the error is caught and logged, the function
\* returns and no report is written
GenerateValuationCsvNoRates ==
  /\ pc = "scraped"
  /\ pc' = "no rates"
  /\ outcome' = Returned("generateValuationCsv", FALSE)
  /\ UNCHANGED <<scraped, game, scrapeRegion, options, locals, csvLines, warned>>
  /\ UNCHANGED currencyVars
  /\ UNCHANGED runVars

Next ==
  \/ \E obs \in Observations : ScrapePriceRow(obs)
  \/ \E row \in Rows, rgn \in Regions : ScrapeGame(row, rgn)
  \/ \E opts \in ValuationOptionsSet : GenerateValuationCsv(opts)
  \/ GenerateValuationCsvNoRates

Spec == Init /\ [][Next]_vars

----------------------------------------------------------------------------
(* determineCondition on its own, over every combination of its inputs *)

InitCondition ==
  /\ scraped = <<>>
  /\ \E t \in ConditionTexts, n \in PlayCounts :
       game = [EmptyGame EXCEPT !.conditiontext = t, !.numplays = n]
  /\ scrapeRegion = DEFAULT_REGION
  /\ \E d \in DefaultConditions : options = [NoOptions EXCEPT !.defaultCondition = d]
  /\ locals = NoLocals
  /\ csvLines = <<>>
  /\ warned = FALSE
  /\ pc = "condition"
  /\ outcome = NotRun
  /\ unknownCurrencies = {}
  /\ missingRates = {}
  /\ call = NoCall
  /\ ratesCache = EmptyCache
  /\ loaded = NotLoaded
  /\ collection = <<>>
  /\ pricesFile = <<>>
  /\ scrapeOptions = NoScrapeOptions
  /\ scrapeRun = NoRun
  /\ browser = NoBrowser

DetermineCondition ==
  /\ pc = "condition"
  /\ locals' = [locals EXCEPT !.gameCondition = determineCondition(game, options.defaultCondition)]
  /\ pc' = "resolved"
  /\ UNCHANGED <<scraped, game, scrapeRegion, options, csvLines, warned, outcome>>
  /\ UNCHANGED currencyVars
  /\ UNCHANGED runVars

NextCondition == DetermineCondition

SpecCondition == InitCondition /\ [][NextCondition]_vars

----------------------------------------------------------------------------
(* currency.ts and stats.ts called on their own, in any order *)

InitCurrency ==
  /\ scraped = <<>>
  /\ game = EmptyGame
  /\ scrapeRegion = DEFAULT_REGION
  /\ options = NoOptions
  /\ locals = NoLocals
  /\ csvLines = <<>>
  /\ warned = FALSE
  /\ pc = "currency"
  /\ outcome = NotRun
  /\ unknownCurrencies = {}
  /\ missingRates = {}
  /\ call = NoCall
  /\ ratesCache = EmptyCache
  /\ loaded = NotLoaded
  /\ collection = <<>>
  /\ pricesFile = <<>>
  /\ scrapeOptions = NoScrapeOptions
  /\ scrapeRun = NoRun
  /\ browser = NoBrowser

ParsePrice(priceText) ==
  /\ pc = "currency"
  /\ call' = [NoCall EXCEPT !.op = "parsePrice", !.text = priceText,
                            !.parsed = parsePrice(priceText)]
  /\ unknownCurrencies' = IF parsePriceUnknown(priceText)
                          THEN SetAdd(unknownCurrencies, trim(priceText))
                          ELSE unknownCurrencies
  /\ UNCHANGED <<pipelineVars, missingRates>>
  /\ UNCHANGED ratesVars
  /\ UNCHANGED runVars

CheckMissingRates(prices, rates) ==
  /\ pc = "currency"
  /\ call' = [NoCall EXCEPT !.op = "checkMissingRates", !.prices = prices, !.rates = rates]
  /\ missingRates' = checkMissingRates(missingRates, prices, rates)
  /\ UNCHANGED <<pipelineVars, unknownCurrencies>>
  /\ UNCHANGED ratesVars
  /\ UNCHANGED runVars

ConvertToBase(value, fromCurrency, rates) ==
  /\ pc = "currency"
  /\ call' = [NoCall EXCEPT !.op = "convertToBase", !.value = value,
                            !.currency = fromCurrency, !.rates = rates,
                            !.number = convertToBase(value, fromCurrency, rates)]
  /\ UNCHANGED <<pipelineVars, unknownCurrencies, missingRates>>
  /\ UNCHANGED ratesVars
  /\ UNCHANGED runVars

ConvertFromBase(value, toCurrency, rates) ==
  /\ pc = "currency"
  /\ call' = [NoCall EXCEPT !.op = "convertFromBase", !.value = value,
                            !.currency = toCurrency, !.rates = rates,
                            !.number = convertFromBase(value, toCurrency, rates)]
  /\ UNCHANGED <<pipelineVars, unknownCurrencies, missingRates>>
  /\ UNCHANGED ratesVars
  /\ UNCHANGED runVars

\* convertFromBase on the result of the convertToBase call before it, with
\* the same currency and rates; chained keeps the amount that call converted
ConvertBack ==
  /\ pc = "currency"
  /\ call.op = "convertToBase"
  /\ call' = [NoCall EXCEPT !.op = "convertFromBase", !.value = AmountScale * call.number,
                            !.currency = call.currency, !.rates = call.rates,
                            !.chained = call.value,
                            !.number = convertFromBase(AmountScale * call.number,
                                                       call.currency, call.rates)]
  /\ UNCHANGED <<pipelineVars, unknownCurrencies, missingRates>>
  /\ UNCHANGED ratesVars
  /\ UNCHANGED runVars

CalculateStats(prices, rates, rgn) ==
  /\ pc = "currency"
  /\ call' = [NoCall EXCEPT !.op = "calculateStats", !.prices = prices, !.rates = rates,
                            !.stats = calculateStats(prices, rates, rgn)]
  /\ UNCHANGED <<pipelineVars, unknownCurrencies, missingRates>>
  /\ UNCHANGED ratesVars
  /\ UNCHANGED runVars

NextCurrency ==
  \/ \E priceText \in PriceTexts : ParsePrice(priceText)
  \/ \E prices \in PriceLists, rates \in RateTables : CheckMissingRates(prices, rates)
  \/ \E value \in FewAmounts, c \in Currencies, rates \in RateTables :
       ConvertToBase(value, c, rates)
  \/ \E value \in FewAmounts, c \in Currencies, rates \in RateTables :
       ConvertFromBase(value, c, rates)
  \/ ConvertBack
  \/ \E prices \in PriceLists, rgn \in Regions : CalculateStats(prices, TestRates, rgn)

SpecCurrency == InitCurrency /\ [][NextCurrency]_vars

----------------------------------------------------------------------------
(* convertToBase and convertFromBase over every amount, currency and table *)

NextConvert ==
  \/ \E value \in Amounts, c \in Currencies, rates \in RateTables :
       ConvertToBase(value, c, rates)
  \/ \E value \in Amounts, c \in Currencies, rates \in RateTables :
       ConvertFromBase(value, c, rates)
  \/ ConvertBack

SpecConvert == InitCurrency /\ [][NextConvert]_vars

----------------------------------------------------------------------------
(* calculateStats and the weights of the weighted mean, each called once *)

\* Sales of one game: amounts in hundredths
Sales ==
  { Price("USD", 100, Condition_NEW, "Nov 1, 2026"),
    Price("USD", 200, Condition_NEW, "Nov 1, 2025"),
    Price("EUR", 9200, Condition_NEW, "Nov 2, 2026"),
    Price("SEK", 63000, Condition_NEW, "Nov 1, 2024"),
    Price("USD", 30000, Condition_NEW, "Nov 1, 2026"),
    Price("USD", 400, Condition_GOOD, "Nov 1, 2026"),
    Price("EUR", 3000, Condition_GOOD, "") }

MaxSales == 3

SaleLists == UNION {[1..n -> Sales] : n \in 1..MaxSales}

\* Ages of a sale in quarter days: future-dated, today, up to three years
MaxYears == 3
MaxAge == MaxYears * TIME_WEIGHT_HALF_LIFE_MS
Ages == (0 - 4)..MaxAge

\* Base values around a median of 100
MaxValue == 200
Values == 0..MaxValue
Iqrs == {0, 1, 10, 33, 50}

CalculateGroupStats(prices, rgn) ==
  /\ pc = "currency"
  /\ call.op = "none"
  /\ call' = [NoCall EXCEPT !.op = "calculateStats", !.prices = prices,
                            !.rates = TestRates, !.region = rgn,
                            !.stats = calculateStats(prices, TestRates, rgn),
                            !.groups = ConditionGroups(prices, TestRates, rgn)]
  /\ UNCHANGED <<pipelineVars, unknownCurrencies, missingRates>>
  /\ UNCHANGED ratesVars
  /\ UNCHANGED runVars

CalculateTimeWeight(age) ==
  /\ pc = "currency"
  /\ call.op = "none"
  /\ call' = [NoCall EXCEPT !.op = "calculateTimeWeight", !.value = age,
                            !.weight = calculateTimeWeight(Key(Now.t - age), Now)]
  /\ UNCHANGED <<pipelineVars, unknownCurrencies, missingRates>>
  /\ UNCHANGED ratesVars
  /\ UNCHANGED runVars

GetPriceWeight(value, median, iqr) ==
  /\ pc = "currency"
  /\ call.op = "none"
  /\ call' = [NoCall EXCEPT !.op = "getPriceWeight", !.value = value,
                            !.median = median, !.iqr = iqr,
                            !.weight = Num(getPriceWeight(value, median, iqr))]
  /\ UNCHANGED <<pipelineVars, unknownCurrencies, missingRates>>
  /\ UNCHANGED ratesVars
  /\ UNCHANGED runVars

NextStats ==
  \/ \E prices \in SaleLists, rgn \in Regions : CalculateGroupStats(prices, rgn)
  \/ \E age \in Ages : CalculateTimeWeight(age)
  \/ \E value \in Values, iqr \in Iqrs : GetPriceWeight(value, 100, iqr)

SpecStats == InitCurrency /\ [][NextStats]_vars

----------------------------------------------------------------------------
(* loadExchangeRates on any cache file, for any base, called again and again *)

InitRates ==
  /\ scraped = <<>>
  /\ game = EmptyGame
  /\ scrapeRegion = DEFAULT_REGION
  /\ options = NoOptions
  /\ locals = NoLocals
  /\ csvLines = <<>>
  /\ warned = FALSE
  /\ pc = "rates"
  /\ outcome = NotRun
  /\ unknownCurrencies = {}
  /\ missingRates = {}
  /\ call = NoCall
  /\ ratesCache \in [Bases -> UNION {StoredEntries(b) : b \in Bases}]
  /\ \A b \in Bases : ratesCache[b] \in StoredEntries(b)
  /\ loaded = NotLoaded
  /\ collection = <<>>
  /\ pricesFile = <<>>
  /\ scrapeOptions = NoScrapeOptions
  /\ scrapeRun = NoRun
  /\ browser = NoBrowser

LoadExchangeRates(baseCurrency, fetch) ==
  LET result == loadExchangeRates(ratesCache, baseCurrency, fetch)
  IN /\ pc = "rates"
     /\ loaded' = [base |-> baseCurrency, fetch |-> fetch, threw |-> result.threw,
                   fetched |-> result.fetched, rates |-> result.rates]
     /\ ratesCache' = result.cache
     /\ UNCHANGED <<pipelineVars, diagnosticVars>>
     /\ UNCHANGED runVars

NextRates ==
  \E baseCurrency \in Bases :
    \E fetch \in FetchOutcomes(baseCurrency) : LoadExchangeRates(baseCurrency, fetch)

SpecRates == InitRates /\ [][NextRates]_vars

----------------------------------------------------------------------------
(* scrape() on any collection and any prices.json *)

InitScrape ==
  /\ scraped = <<>>
  /\ game = EmptyGame
  /\ scrapeRegion = DEFAULT_REGION
  /\ options = NoOptions
  /\ locals = NoLocals
  /\ csvLines = <<>>
  /\ warned = FALSE
  /\ pc = "run"
  /\ outcome = NotRun
  /\ unknownCurrencies = {}
  /\ missingRates = {}
  /\ call = NoCall
  /\ ratesCache = EmptyCache
  /\ loaded = NotLoaded
  /\ collection \in Collections
  /\ pricesFile \in PricesFiles
  /\ scrapeOptions = NoScrapeOptions
  /\ scrapeRun = NoRun
  /\ browser = NoBrowser

\* scrape(options, parseCsv, loadExchangeRates) up to the loop: the rates
\* are loaded, then the cached results, and the browser is launched; an
\* error of loadExchangeRates leaves scrape()
StartScrape(opts, load) ==
  /\ pc = "run"
  /\ scrapeRun.pc = "start"
  /\ scrapeOptions' = opts
  /\ IF load.threw
     THEN /\ scrapeRun' = [scrapeRun EXCEPT !.pc = "threw"]
          /\ outcome' = Threw("scrape")
          /\ UNCHANGED browser
     ELSE /\ scrapeRun' = [scrapeRun EXCEPT
                       !.pc = "loop",
                       !.region = IF opts.region = "" THEN DEFAULT_REGION ELSE opts.region,
                       !.exchangeRates = load.rates,
                       !.existingResults =
                          IF opts.force THEN NoResults ELSE loadExistingResults(pricesFile),
                       !.fileAtStart = pricesFile]
          /\ browser' = [browser EXCEPT !.launched = TRUE]
          /\ UNCHANGED outcome
  /\ UNCHANGED <<scraped, game, scrapeRegion, options, locals, csvLines, warned, pc>>
  /\ UNCHANGED currencyVars
  /\ UNCHANGED <<collection, pricesFile>>

\* one pass of the loop for a row whose game is in existingResults
UseCached ==
  /\ pc = "run"
  /\ scrapeRun.pc = "loop"
  /\ scrapeRun.i < Len(collection)
  /\ LET row == collection[scrapeRun.i + 1]
         rates == scrapeRun.exchangeRates
     IN /\ row.objectid \in DOMAIN scrapeRun.existingResults
        /\ \E cached \in {Refreshed(scrapeRun.existingResults[row.objectid], row, rates,
                                      scrapeRun.region)} :
             scrapeRun' = [scrapeRun EXCEPT
                        !.i = @ + 1,
                        !.existingResults = [@ EXCEPT ![row.objectid] = cached],
                        !.results = Append(@, Pushed(TRUE, scrapeRun.i + 1, row.objectid, cached)),
                        !.skippedCount = @ + 1,
                        !.totalPrices = @ + Len(cached.prices),
                        !.unknownCurrencyConversions =
                           IF UnknownConversion(row, rates)
                           THEN Append(@, row.objectid) ELSE @]
  /\ UNCHANGED <<pipelineVars, currencyVars>>
  /\ UNCHANGED <<collection, pricesFile, scrapeOptions, browser>>

\* one pass of the loop for a row whose game is not in existingResults:
\* scrapeGame opens a page for each attempt and closes it; the attempts
\* before the one in which scrapePriceHistory is called throw
ScrapeRow(failed, request, found) ==
  /\ pc = "run"
  /\ scrapeRun.pc = "loop"
  /\ scrapeRun.i < Len(collection)
  /\ LET row == collection[scrapeRun.i + 1]
         rates == scrapeRun.exchangeRates
         succeeded == failed <= MAX_RETRIES
     IN /\ row.objectid \notin DOMAIN scrapeRun.existingResults
        /\ <<failed, request, found>> \in PriceHistory(row.objectid)
        /\ browser' = [browser EXCEPT
                         !.pages = @ \o PagesOf(scrapeRun.i + 1, failed, request)]
        /\ IF succeeded
           THEN /\ \E result \in {WithStats(scrapeGame(row, rates,
                                                         scrapePriceHistory(request, found)),
                                              rates, scrapeRun.region)} :
                     scrapeRun' = [scrapeRun EXCEPT
                             !.i = @ + 1,
                             !.results = Append(@, Pushed(FALSE, scrapeRun.i + 1, row.objectid, result)),
                             !.scrapedCount = @ + 1,
                             !.totalPrices = @ + Len(result.prices),
                             !.unknownCurrencyConversions =
                                IF UnknownConversion(row, rates)
                                THEN Append(@, row.objectid) ELSE @]
                /\ missingRates' = checkMissingRates(missingRates,
                                                     scrapePriceHistory(request, found), rates)
                /\ pricesFile' = IF scrapeRun'.scrapedCount % 10 = 0
                                 THEN Stringify(Results(scrapeRun')) ELSE pricesFile
           ELSE /\ scrapeRun' = [scrapeRun EXCEPT
                             !.i = @ + 1,
                             !.errorCount = @ + 1,
                             !.errors = Append(@, row.objectid)]
                /\ UNCHANGED <<missingRates, pricesFile>>
  /\ UNCHANGED <<pipelineVars, unknownCurrencies, call, ratesVars>>
  /\ UNCHANGED <<collection, scrapeOptions>>

\* the end of the loop: the final save, the summary, and the browser is
\* closed
FinishScrape ==
  /\ pc = "run"
  /\ scrapeRun.pc = "loop"
  /\ scrapeRun.i = Len(collection)
  /\ pricesFile' = Stringify(Results(scrapeRun))
  /\ scrapeRun' = [scrapeRun EXCEPT !.pc = "done"]
  /\ browser' = [browser EXCEPT !.closed = TRUE]
  /\ outcome' = Returned("scrape", TRUE)
  /\ UNCHANGED <<scraped, game, scrapeRegion, options, locals, csvLines, warned, pc>>
  /\ UNCHANGED currencyVars
  /\ UNCHANGED <<collection, scrapeOptions>>

\* browser.newPage() rejects for a row that is to be scraped: the error
\* leaves scrapeGame and scrape(), whose finally closes the browser
AbortScrape ==
  /\ pc = "run"
  /\ scrapeRun.pc = "loop"
  /\ scrapeRun.i < Len(collection)
  /\ collection[scrapeRun.i + 1].objectid \notin DOMAIN scrapeRun.existingResults
  /\ scrapeRun' = [scrapeRun EXCEPT !.pc = "threw"]
  /\ browser' = [browser EXCEPT !.closed = TRUE]
  /\ outcome' = Threw("scrape")
  /\ UNCHANGED <<scraped, game, scrapeRegion, options, locals, csvLines, warned, pc>>
  /\ UNCHANGED currencyVars
  /\ UNCHANGED <<collection, pricesFile, scrapeOptions>>

NextScrape ==
  \/ \E opts \in ScrapeOptionsSet, load \in LoadOutcomes : StartScrape(opts, load)
  \/ UseCached
  \/ AbortScrape
  \/ \E failed \in FailedAttempts, request \in Requests, found \in ScrapedPrices :
       ScrapeRow(failed, request, found)
  \/ FinishScrape

SpecScrape == InitScrape /\ [][NextScrape]_vars

----------------------------------------------------------------------------
(* Properties of the valuation report *)

Valued == pc = "valued"

\* the index of the first record of calc with the label, 0 when there is none
RecordOf(condition) ==
  IF \E i \in 1..Len(game.calc) : game.calc[i].condition = condition
  THEN CHOOSE i \in 1..Len(game.calc) :
         /\ game.calc[i].condition = condition
         /\ \A j \in 1..(i - 1) : game.calc[j].condition # condition
  ELSE 0

\* the source values of the README for an exact match
SourceOf(condition) ==
  CASE condition = Condition_NEW -> <<"m","a","r","k","e","t",":","n","e","w">>
    [] condition = Condition_LIKE_NEW ->
         <<"m","a","r","k","e","t",":","l","i","k","e","-","n","e","w">>
    [] condition = Condition_VERY_GOOD ->
         <<"m","a","r","k","e","t",":","v","e","r","y","-","g","o","o","d">>
    [] condition = Condition_GOOD -> <<"m","a","r","k","e","t",":","g","o","o","d">>
    [] condition = Condition_ACCEPTABLE ->
         <<"m","a","r","k","e","t",":","a","c","c","e","p","t","a","b","l","e">>

HasMarketData == Len(game.prices) > 0 /\ Len(game.calc) > 0

\* C1: an item that has a statistics record for its resolved target tier is
\* valued at that record's weighted mean (in base currency), the tier used
\* is the target tier and the source is market:<tier> with no fallback
\* marker, whatever other tiers have statistics.
C1_ExactMatch ==
  (Valued /\ HasMarketData /\ RecordOf(locals.gameCondition) # 0) =>
     /\ locals.estimatedValueUSD = game.calc[RecordOf(locals.gameCondition)].weightedMean
     /\ locals.usedCondition = locals.gameCondition
     /\ csvLines[1].condition = locals.gameCondition
     /\ csvLines[1].source = SourceOf(locals.gameCondition)

\* C1 witness: an exact match on Very Good while New and Like New, earlier
\* in the priority order, have statistics too
C1_Witness ==
  /\ Valued
  /\ locals.gameCondition = Condition_VERY_GOOD
  /\ RecordOf(Condition_VERY_GOOD) = 3
  /\ RecordOf(Condition_NEW) = 1
  /\ locals.estimatedValueUSD = 60
  /\ csvLines[1].source = SourceOf(Condition_VERY_GOOD)

\* the position in New .. Acceptable of the first tier with statistics
FirstTierWithStats ==
  CHOOSE k \in 1..Len(Condition) :
    /\ RecordOf(Condition[k]) # 0
    /\ \A j \in 1..(k - 1) : RecordOf(Condition[j]) = 0

\* C2: with statistics but none for the target tier, the record used is that
\* of the first tier of New, Like New, Very Good, Good, Acceptable that has
\* statistics; the estimate is its weighted mean, the used tier is that tier
\* and the source carries the fallback marker.
C2_TierFallback ==
  (/\ Valued /\ HasMarketData
   /\ RecordOf(locals.gameCondition) = 0
   /\ \E k \in 1..Len(Condition) : RecordOf(Condition[k]) # 0) =>
     LET tier == Condition[FirstTierWithStats]
     IN /\ locals.usedCondition = tier
        /\ csvLines[1].condition = tier
        /\ locals.estimatedValueUSD = game.calc[RecordOf(tier)].weightedMean
        /\ csvLines[1].source = SourceOf(tier) \o StrFallbackMark

\* C2 witness: target Good, statistics for New and Acceptable only: New is
\* used, not the nearer Acceptable
C2_Witness ==
  /\ Valued
  /\ locals.gameCondition = Condition_GOOD
  /\ Len(game.calc) = 2
  /\ RecordOf(Condition_NEW) = 1
  /\ RecordOf(Condition_ACCEPTABLE) = 2
  /\ locals.usedCondition = Condition_NEW
  /\ csvLines[1].source = SourceOf(Condition_NEW) \o StrFallbackMark

PurchasePriceUSD == IF game.purchasePrice.isNull THEN 0 ELSE game.purchasePrice.valueInUSD

\* C3: an item without statistics (or without sale observations) is valued
\* at round(purchasePrice * 0.6) in base currency, an absent purchase price
\* counting as 0, with source "fallback": 1000 gives 600.
C3_NoMarketData ==
  (Valued /\ (Len(game.calc) = 0 \/ Len(game.prices) = 0)) =>
     /\ 10 * locals.estimatedValueUSD - 5 <= 6 * PurchasePriceUSD
     /\ 6 * PurchasePriceUSD < 10 * locals.estimatedValueUSD + 5
     /\ (PurchasePriceUSD = 1000 => locals.estimatedValueUSD = 600)
     /\ csvLines[1].source = <<"f","a","l","l","b","a","c","k">>

C3_Witness ==
  /\ Valued
  /\ Len(game.prices) = 0
  /\ PurchasePriceUSD = 1000
  /\ locals.estimatedValueUSD = 600
  /\ csvLines[1].source = StrFallback

\* C4: the items flagged as unvaluable are exactly those with no market data
\* and no (or a zero) purchase price, and those get the estimate 0.
C4_UnvaluableFlagged ==
  Valued =>
     /\ warned <=> (~HasMarketData /\ PurchasePriceUSD = 0)
     /\ (~HasMarketData /\ PurchasePriceUSD = 0) => csvLines[1].estimatedValue = 0

----------------------------------------------------------------------------
(* Properties of the condition resolver *)

Resolved == pc = "resolved"

\* The tier a condition text names after trimming and ignoring case, for
\* the texts of ConditionTexts; <<>> when it names none
TierNamed(text) ==
  CASE text = Text(<<"N","e","w">>) -> Condition_NEW
    [] text = Text(<<" ","l","i","k","e"," ","N","E","W"," ">>) -> Condition_LIKE_NEW
    [] text = Text(<<"V","E","R","Y"," ","G","O","O","D">>) -> Condition_VERY_GOOD
    [] text = Text(<<"g","o","o","d">>) -> Condition_GOOD
    [] text = Text(<<"A","c","c","e","p","t","a","b","l","e","\t">>) -> Condition_ACCEPTABLE
    [] OTHER -> <<>>

\* C5: the cascade, first match wins: the tier named by the condition text;
\* else the caller default; else the tier inferred from the play count
\* (0 included); else Like New.
C5_Cascade ==
  Resolved =>
    IF TierNamed(game.conditiontext) # <<>>
    THEN locals.gameCondition = TierNamed(game.conditiontext)
    ELSE IF options.defaultCondition.defined
    THEN locals.gameCondition = options.defaultCondition.v
    ELSE IF game.numplays.kind # "undefined"
    THEN locals.gameCondition = inferConditionFromPlays(game.numplays)
    ELSE locals.gameCondition = Condition_LIKE_NEW

\* C5 witness: a caller default wins over a supplied play count of 0
C5_Witness ==
  /\ Resolved
  /\ game.conditiontext = Text(<<"m","i","n","t">>)
  /\ options.defaultCondition = Some(Condition_GOOD)
  /\ game.numplays = Plays(0)
  /\ locals.gameCondition = Condition_GOOD

\* C6: whatever the condition text, the caller default and the play count
\* (absent, negative, very large, NaN or null), the resolved tier is one of
\* the five canonical tiers, never "Unknown" and never an undefined value.
C6_Total ==
  Resolved =>
    /\ locals.gameCondition \in {Condition_NEW, Condition_LIKE_NEW, Condition_VERY_GOOD,
                                 Condition_GOOD, Condition_ACCEPTABLE}
    /\ locals.gameCondition # Condition_UNKNOWN
    /\ locals.gameCondition # <<>>

\* C6 witness: the text "Unknown", no default and a NaN play count resolve
\* to Acceptable
C6_Witness ==
  /\ Resolved
  /\ game.conditiontext = Text(Condition_UNKNOWN)
  /\ ~options.defaultCondition.defined
  /\ game.numplays = NaNPlays
  /\ locals.gameCondition = Condition_ACCEPTABLE

\* the place of a tier in New .. Acceptable
Rank(condition) == CHOOSE k \in 1..Len(Condition) : Condition[k] = condition

InferredFromPlays ==
  /\ Resolved
  /\ TierNamed(game.conditiontext) = <<>>
  /\ ~options.defaultCondition.defined
  /\ game.numplays.kind = "number"
  /\ game.numplays.n >= 0

----------------------------------------------------------------------------
(* Properties of calculateStats *)

HasStats == pc \in {"scraped", "valued"}

\* the tier label an observation is counted under
LabelOf(price) == IF price.condition = <<>> THEN Condition_UNKNOWN ELSE price.condition

LabelsPresent == {LabelOf(game.prices[i]) : i \in 1..Len(game.prices)}

\* the base-currency values of the observations labelled condition, in order
GroupValues(condition) ==
  LET group == SelectSeq(game.prices, LAMBDA p : LabelOf(p) = condition)
  IN [i \in 1..Len(group) |-> convertToBase(group[i].value, group[i].currency, TestRates)]

\* C8: one record per tier label present (none for no observations), in the
\* order New, Like New, Very Good, Good, Acceptable, with the "Unknown"
\* record last, after every other record.
C8_OneRecordPerTierSorted ==
  HasStats =>
    /\ Len(game.calc) = Cardinality(LabelsPresent)
    /\ {game.calc[i].condition : i \in 1..Len(game.calc)} = LabelsPresent
    /\ \A i, j \in 1..Len(game.calc) :
         (/\ i < j
          /\ game.calc[i].condition \in Canonical
          /\ game.calc[j].condition \in Canonical) =>
            Rank(game.calc[i].condition) < Rank(game.calc[j].condition)
    /\ \A i \in 1..Len(game.calc) :
         game.calc[i].condition = Condition_UNKNOWN => i = Len(game.calc)

\* C9: every observation whose label is not one of the five canonical tier
\* names is counted in the single record "Unknown", so the labels of the
\* records are among the five canonical tiers and "Unknown".
C9_UnrecognizedIntoUnknown ==
  HasStats =>
    /\ \A i \in 1..Len(game.calc) :
         game.calc[i].condition \in Canonical \cup {Condition_UNKNOWN}
    /\ \A i \in 1..Len(game.calc) :
         game.calc[i].condition = Condition_UNKNOWN =>
           game.calc[i].count =
             Cardinality({k \in 1..Len(game.prices) :
                            game.prices[k].condition \notin Canonical})

\* C10: for every record, count is the number of observations with its
\* label (positive, the counts adding up to the number of observations),
\* lowest and highest are the least and greatest base-currency value of the
\* group and mean is their arithmetic mean rounded to the nearest whole
\* unit; New observations of 50, 60 and 70 USD give 3, 60, 60, 50, 70.
C10_DescriptiveStats ==
  HasStats =>
    /\ \A i \in 1..Len(game.calc) :
         LET r == game.calc[i]
             v == GroupValues(r.condition)
         IN /\ r.count = Len(v)
            /\ r.count > 0
            /\ \A k \in 1..Len(v) : r.lowest <= v[k] /\ v[k] <= r.highest
            /\ \E k \in 1..Len(v) : r.lowest = v[k]
            /\ \E k \in 1..Len(v) : r.highest = v[k]
            /\ 2 * r.mean * r.count - r.count <= 2 * SumSeq(v)
            /\ 2 * SumSeq(v) < 2 * r.mean * r.count + r.count
            /\ (v = <<50, 60, 70>> =>
                  /\ r.median = 60
                  /\ r.mean = 60
                  /\ r.lowest = 50
                  /\ r.highest = 70)
    /\ SumSeq([i \in 1..Len(game.calc) |-> game.calc[i].count]) = Len(game.prices)

\* C10 witness: the New observations 50, 60, 70 USD beside no other
C10_Witness ==
  /\ HasStats
  /\ Len(game.calc) = 1
  /\ game.calc[1].condition = Condition_NEW
  /\ GroupValues(Condition_NEW) = <<50, 60, 70>>
  /\ game.calc[1].count = 3
  /\ game.calc[1].median = 60
  /\ game.calc[1].mean = 60
  /\ game.calc[1].lowest = 50
  /\ game.calc[1].highest = 70

----------------------------------------------------------------------------
(* Properties of the weighted mean *)

\* the base-currency values of the observations labelled condition are all
\* the same value
Identical(values) == \A i \in 1..Len(values) : values[i] = values[1]

\* C11: the weightedMean of a tier group whose base-currency values are all
\* the same value v is v, whatever the group size, the sale dates (a date
\* string that does not parse included), the currencies and the region.
C11_IdenticalValues ==
  HasStats =>
    \A i \in 1..Len(game.calc) :
      LET values == GroupValues(game.calc[i].condition)
      IN Identical(values) => game.calc[i].weightedMean = values[1]

----------------------------------------------------------------------------
(* Properties of the currency conversion *)

Converted == call.op \in {"convertToBase", "convertFromBase"}

\* n is the whole number nearest to num / den (den > 0), a half going up
IsRounded(n, num, den) ==
  /\ (2 * n - 1) * den <= 2 * num
  /\ 2 * num < (2 * n + 1) * den

\* C12: convertToBase and convertFromBase return a whole number: the input
\* rounded to the nearest whole unit when the currency is the base of the
\* table (whether or not the rate map has an entry for it), otherwise
\* round(amount / rate) and round(amount * rate), halves going up;
\* 33 * 10.5 gives 347, 100 EUR at 0.92 gives 109, 100 SEK at 10.5 gives 10.
C12_ConversionArithmetic ==
  Converted =>
    LET rate == RateOf(call.rates, call.currency)
    IN /\ call.number \in Int
       /\ call.currency = call.rates.base =>
            IsRounded(call.number, call.value, AmountScale)
       /\ (call.currency # call.rates.base /\ rate > 0 /\ call.op = "convertToBase") =>
            IsRounded(call.number, call.value * RateScale, AmountScale * rate)
       /\ (call.currency # call.rates.base /\ rate > 0 /\ call.op = "convertFromBase") =>
            IsRounded(call.number, call.value * rate, AmountScale * RateScale)
       /\ (call.rates = TestRates /\ call.value = 100 * AmountScale) =>
            /\ (call.op = "convertToBase" /\ call.currency = "EUR") => call.number = 109
            /\ (call.op = "convertToBase" /\ call.currency = "SEK") => call.number = 10
       /\ (/\ call.rates = TestRates /\ call.value = 33 * AmountScale
           /\ call.op = "convertFromBase" /\ call.currency = "SEK") => call.number = 347

C12_Witness ==
  /\ call.op = "convertFromBase"
  /\ call.rates = TestRates
  /\ call.currency = "SEK"
  /\ call.value = 33 * AmountScale
  /\ call.number = 347

\* the call converted a currency that is not the base and has no rate
RateMissing ==
  /\ Converted
  /\ call.currency # call.rates.base
  /\ RateOf(call.rates, call.currency) = 0

\* C13: when the table has no rate for a currency that is not its base,
\* convertToBase and convertFromBase return the rounded input and the
\* currency is among the missing rates reported by getMissingRates; a
\* conversion of a currency that has a rate adds nothing to them.
C13_MissingRateRecorded ==
  /\ RateMissing =>
       /\ IsRounded(call.number, call.value, AmountScale)
       /\ call.currency \in missingRates
  /\ (Converted /\ ~RateMissing) => call.currency \notin missingRates

\* the call is convertFromBase on the result of convertToBase of a whole
\* amount a >= 0, for the same currency and table
RoundTrip ==
  /\ call.op = "convertFromBase"
  /\ call.chained >= 0
  /\ call.chained % AmountScale = 0

\* C14: convertFromBase(convertToBase(a, c, t), c, t) is a when c is the base
\* of t, and for a currency with a rate r > 0 it differs from a by at most
\* r / 2 (the rounding to base units, carried back) plus 1 / 2 (the rounding
\* of the result).
C14_RoundTrip ==
  RoundTrip =>
    LET a == call.chained \div AmountScale
        rate == RateOf(call.rates, call.currency)
    IN /\ call.currency = call.rates.base => call.number = a
       /\ (call.currency # call.rates.base /\ rate > 0) =>
            2 * RateScale * Abs(call.number - a) <= rate + RateScale

C14_Witness ==
  /\ RoundTrip
  /\ call.rates = TestRates
  /\ call.currency = "SEK"
  /\ call.chained = 100 * AmountScale
  /\ call.number = 105

----------------------------------------------------------------------------
(* Properties of parsePrice *)

ParsedPrice == call.op = "parsePrice"

\* the entries of CURRENCY_MAP the trimmed text starts with and whose
\* remainder parses as a number
MatchingEntries ==
  {i \in 1..Len(CURRENCY_MAP) :
     /\ startsWith(trim(call.text), CURRENCY_MAP[i][1])
     /\ ~PrefixValue(trim(call.text), CURRENCY_MAP[i][1]).nan}

ParsedAs(priceText, currency, value) ==
  call.text = priceText => call.parsed = Parsed(currency, value * AmountScale)

\* C15: when the trimmed text starts with entries of the prefix table whose
\* remainder parses as a number, the result is the currency of a longest one
\* of them with that number; the prefix table goes before the "CODE 123.45"
\* form and that before the "123.45 CODE" form; thousands separators are
\* removed; CA$30 is (CAD, 30), US$25 (USD, 25), A$35 (AUD, 35), $25
\* (USD, 25) and $1,500 is 1500.
C15_LongestPrefixFirst ==
  ParsedPrice =>
    LET cleanText == trim(call.text)
        m2 == prefixCodeMatch(cleanText)
        m3 == suffixMatch(cleanText)
    IN /\ MatchingEntries # {} =>
            \E i \in MatchingEntries :
              /\ \A j \in MatchingEntries : Len(CURRENCY_MAP[j][1]) <= Len(CURRENCY_MAP[i][1])
              /\ call.parsed = Parsed(CURRENCY_MAP[i][2],
                                      PrefixValue(cleanText, CURRENCY_MAP[i][1]).x)
       /\ (MatchingEntries = {} /\ m2.defined /\ ~parseFloat(StripCommas(m2.v[2])).nan) =>
            /\ ~call.parsed.isNull
            /\ call.parsed.currency = toUpperCase(SubSeq(cleanText, 1, 3))
       /\ (MatchingEntries = {} /\ ~m2.defined /\ m3.defined
             /\ ~parseFloat(StripCommas(m3.v[1])).nan) =>
            /\ ~call.parsed.isNull
            /\ call.parsed.currency
                 = toUpperCase(SubSeq(cleanText, Len(cleanText) - 2, Len(cleanText)))
       /\ ParsedAs(<<"C","A","$","3","0">>, <<"C","A","D">>, 30)
       /\ ParsedAs(<<"U","S","$","2","5">>, <<"U","S","D">>, 25)
       /\ ParsedAs(<<"A","$","3","5">>, <<"A","U","D">>, 35)
       /\ ParsedAs(<<"$","2","5">>, <<"U","S","D">>, 25)
       /\ ParsedAs(<<"$","1",",","5","0","0">>, <<"U","S","D">>, 1500)
       /\ ParsedAs(<<"1",",","0","0","0"," ","S","E","K">>, <<"S","E","K">>, 1000)

C15_Witness ==
  /\ ParsedPrice
  /\ call.text = <<"C","A","$","3","0">>
  /\ call.parsed = Parsed(<<"C","A","D">>, 30 * AmountScale)

ContainsDigit(s) == \E i \in 1..Len(s) : IsDigit(s[i])

\* the trimmed text has none of the three supported forms
NoSupportedForm ==
  LET cleanText == trim(call.text)
      m2 == prefixCodeMatch(cleanText)
      m3 == suffixMatch(cleanText)
  IN /\ MatchingEntries = {}
     /\ ~(m2.defined /\ ~parseFloat(StripCommas(m2.v[2])).nan)
     /\ ~(m3.defined /\ ~parseFloat(StripCommas(m3.v[1])).nan)

\* C16: empty or white-space text gives null and no diagnostic; text with a
\* number in it but none of the three forms gives null and is in the
\* unrecognized-format set; text that parses is not in it; every call
\* returns null or a price.
C16_ParseFailures ==
  /\ ParsedPrice =>
       LET cleanText == trim(call.text)
       IN /\ cleanText = <<>> => call.parsed.isNull
          /\ (ContainsDigit(cleanText) /\ NoSupportedForm) =>
               /\ call.parsed.isNull
               /\ cleanText \in unknownCurrencies
          /\ ~call.parsed.isNull => cleanText \notin unknownCurrencies
          /\ call.parsed = NoParse \/ call.parsed.value \in Int
  /\ <<>> \notin unknownCurrencies
  /\ \A t \in unknownCurrencies : parsePrice(t).isNull

C16_Witness ==
  /\ ParsedPrice
  /\ call.text = <<"2","5">>
  /\ call.parsed.isNull
  /\ <<"2","5">> \in unknownCurrencies

----------------------------------------------------------------------------
(* Properties of the two diagnostic sets *)

\* the result of the call just made is the one its arguments give, whatever
\* the two sets hold
ResultFromArguments ==
  /\ call'.op = "parsePrice" => call'.parsed = parsePrice(call'.text)
  /\ call'.op = "convertToBase" =>
       call'.number = convertToBase(call'.value, call'.currency, call'.rates)
  /\ call'.op = "convertFromBase" =>
       call'.number = convertFromBase(call'.value, call'.currency, call'.rates)
  /\ call'.op = "calculateStats" =>
       \E rgn \in Regions : call'.stats = calculateStats(call'.prices, call'.rates, rgn)

\* C17: over any sequence of parsePrice, checkMissingRates, convertToBase,
\* convertFromBase and calculateStats calls the unrecognized-format set and
\* the missing-rate set only grow, and what a call returns does not depend
\* on what the two sets hold.
C17_AppendOnly ==
  [][/\ unknownCurrencies \subseteq unknownCurrencies'
     /\ missingRates \subseteq missingRates'
     /\ ResultFromArguments]_vars

C17_Witness ==
  /\ Cardinality(unknownCurrencies) >= 2
  /\ Cardinality(missingRates) >= 2
  /\ call.op = "calculateStats"

----------------------------------------------------------------------------
(* Properties of the failure of a scrapeRun *)

\* C18: a scrape or generateValuationCsv scrapeRun that could not obtain the
\* exchange-rate table (loadExchangeRates threw) does not complete normally:
\* the failure reaches its caller.
C18_OnlyHardFailure ==
  (outcome.op \in {"scrape", "generateValuationCsv"} /\ ~outcome.rates) => outcome.threw

----------------------------------------------------------------------------
(* Properties of loadExchangeRates *)

\* the entry of the base asked for is dated today
FreshEntry(entry) == entry.present /\ entry.table.date = Today

\* C19: (1) an entry of today is returned and nothing is fetched; (2) an
\* absent entry or one of another day makes the call fetch, and the fetched
\* table is stored under the base and returned; (3) when the fetch fails the
\* stale entry is returned; (4) when the fetch fails and there is no entry
\* the call fails.  A fetched table has rate[base] = 1 and storing it leaves
\* the entry of every other base as it was.
C19_CacheStrategy ==
  [][loaded'.base \in Bases =>
       LET b == loaded'.base
           entry == ratesCache[b]
           fetch == loaded'.fetch
       IN /\ FreshEntry(entry) =>
               /\ ~loaded'.threw
               /\ ~loaded'.fetched
               /\ loaded'.rates = entry.table
               /\ ratesCache' = ratesCache
          /\ ~FreshEntry(entry) => loaded'.fetched
          /\ (~FreshEntry(entry) /\ fetch.ok) =>
               /\ ~loaded'.threw
               /\ loaded'.rates.base = b
               /\ loaded'.rates.date = fetch.date
               /\ loaded'.rates.rates[b] = RatePrecision
               /\ \A c \in DOMAIN fetch.rates :
                    loaded'.rates.rates[c] = RoundDiv(fetch.rates[c], 10)
               /\ ratesCache'[b] = Entry(loaded'.rates)
               /\ \A other \in Bases \ {b} : ratesCache'[other] = ratesCache[other]
          /\ (~FreshEntry(entry) /\ ~fetch.ok /\ entry.present) =>
               /\ ~loaded'.threw
               /\ loaded'.rates = entry.table
               /\ ratesCache' = ratesCache
          /\ (~FreshEntry(entry) /\ ~fetch.ok /\ ~entry.present) =>
               /\ loaded'.threw
               /\ ratesCache' = ratesCache]_vars

C19_Witness ==
  /\ loaded.base = "USD"
  /\ loaded.fetched
  /\ loaded.fetch.ok
  /\ ~loaded.threw
  /\ loaded.rates.rates["USD"] = RatePrecision
  /\ loaded.rates.rates["EUR"] = 9235
  /\ ratesCache["USD"] = Entry(loaded.rates)
  /\ ratesCache["SEK"] = Entry(StoredTable("SEK", "2026-10-01"))

----------------------------------------------------------------------------
(* Properties of the scrape cache *)

\* a page was opened for the row at position k of the collection
Scraped(k) == \E p \in 1..Len(browser.pages) : browser.pages[p].row = k

\* the entries of the prices.json of the start of the run for a game
StoredFor(objectid) ==
  {j \in 1..Len(scrapeRun.fileAtStart) : scrapeRun.fileAtStart[j].objectid = objectid}

\* those with at least one price and at least one statistics record
StoredWithData(objectid) ==
  {j \in StoredFor(objectid) :
     /\ Len(scrapeRun.fileAtStart[j].prices) > 0
     /\ Len(scrapeRun.fileAtStart[j].calc) > 0}

\* the element of results of the row at position k is the stored entry with
\* its prices, refreshed from that row and with its statistics recomputed
CarriedOver(k) ==
  LET row == collection[k]
      rates == scrapeRun.exchangeRates
  IN \E j \in 1..Len(scrapeRun.results) :
       /\ scrapeRun.results[j].row = k
       /\ LET result == Results(scrapeRun)[j]
          IN \E e \in StoredWithData(row.objectid) :
               LET stored == scrapeRun.fileAtStart[e]
               IN /\ result.objectid = row.objectid
                  /\ result.prices = stored.prices
                  /\ result.purchasePrice = getPurchasePrice(row, rates)
                  /\ result.conditiontext = OrUndefined(row.conditiontext)
                  /\ result.numplays = row.numplays
                  /\ result.calc = calculateStats(stored.prices, rates, scrapeRun.region)

\* C20: in a run without --force a game of the collection whose entry in
\* prices.json has a price and a statistics record is not scraped: its
\* result has the stored prices, the purchase price, condition text and play
\* count of its collection row and statistics recomputed with the rates and
\* region of the run; a game whose entry has no prices is scraped; with
\* --force every game is scraped.
C20_ScrapeCache ==
  scrapeRun.pc \in {"loop", "done"} =>
    \A k \in 1..scrapeRun.i :
      LET objectid == collection[k].objectid
      IN /\ (~scrapeOptions.force /\ StoredWithData(objectid) # {}) =>
              /\ ~Scraped(k)
              /\ CarriedOver(k)
         /\ (/\ ~scrapeOptions.force
             /\ StoredFor(objectid) # {}
             /\ \A j \in StoredFor(objectid) : Len(scrapeRun.fileAtStart[j].prices) = 0) =>
              Scraped(k)
         /\ scrapeOptions.force => Scraped(k)

----------------------------------------------------------------------------
(* Properties of the progress saving *)

\* prices.json holds an entry for the game with the prices of entry e of
\* the file of the start of the run
StillStored(objectid, e) ==
  \E j \in 1..Len(pricesFile) :
    /\ pricesFile[j].objectid = objectid
    /\ pricesFile[j].prices = scrapeRun.fileAtStart[e].prices

\* C21: at every point of a run without --force, every game of the
\* collection that had price data in prices.json when the run started is
\* still in prices.json with its prices, whatever progress saves have been
\* made, so that a run interrupted there and started again does not scrape
\* it again.
C21_SafeToInterrupt ==
  (scrapeRun.pc \in {"loop", "done", "threw"} /\ ~scrapeOptions.force) =>
    \A k \in 1..Len(collection) :
      \A e \in StoredWithData(collection[k].objectid) :
        StillStored(collection[k].objectid, e)

----------------------------------------------------------------------------
(* Properties of the retries *)

\* the pages opened for the row at position k, in the order of the attempts
AttemptsOf(k) == SelectSeq(browser.pages, LAMBDA page : page.row = k)

\* the row at position k has an element in results
InResults(k) == \E j \in 1..Len(scrapeRun.results) : scrapeRun.results[j].row = k

\* the attempt made in the page failed: it threw, or its request got no
\* response, a status other than 200 or a timeout
FailedAttempt(page) == page.threw \/ page.request # "ok"

\* C22: a row that is scraped gets at most 3 attempts; an attempt is made
\* again only after the one before it failed; an attempt that failed is
\* followed by another unless it was the third; the row is in the results
\* exactly when its last attempt did not fail, and otherwise it is reported
\* as failed.  (The delay between two attempts is no part of the state.)
C22_ScrapeRetry ==
  scrapeRun.pc \in {"loop", "done"} =>
    \A k \in 1..scrapeRun.i :
      LET attempts == AttemptsOf(k)
          n == Len(attempts)
      IN /\ n <= 3
         /\ \A a \in 1..(n - 1) : FailedAttempt(attempts[a])
         /\ \A a \in 1..n : (FailedAttempt(attempts[a]) /\ a < 3) => a < n
         /\ n > 0 =>
              /\ InResults(k) <=> ~FailedAttempt(attempts[n])
              /\ ~InResults(k) =>
                   \E e \in 1..Len(scrapeRun.errors) :
                     scrapeRun.errors[e] = collection[k].objectid

----------------------------------------------------------------------------
(* Properties of the accounting of a run *)

\* the rows whose attempts all threw
ThrownRows ==
  {k \in 1..Len(collection) :
     /\ AttemptsOf(k) # <<>>
     /\ \A a \in 1..Len(AttemptsOf(k)) : AttemptsOf(k)[a].threw}

\* the browser has been closed, and every page opened in it
AllClosed ==
  /\ browser.closed
  /\ \A p \in 1..Len(browser.pages) : browser.pages[p].closed

\* every row is counted once, results holds the rows that did not fail in
\* the order of the collection
Accounted ==
  /\ scrapeRun.scrapedCount + scrapeRun.skippedCount + scrapeRun.errorCount
       = Len(collection)
  /\ scrapeRun.errorCount = Cardinality(ThrownRows)
  /\ Len(scrapeRun.results) = scrapeRun.scrapedCount + scrapeRun.skippedCount
  /\ \A j \in 1..(Len(scrapeRun.results) - 1) :
       scrapeRun.results[j].row < scrapeRun.results[j + 1].row
  /\ {scrapeRun.results[j].row : j \in 1..Len(scrapeRun.results)}
       = (1..Len(collection)) \ ThrownRows
  /\ \A j \in 1..Len(scrapeRun.results) :
       Results(scrapeRun)[j].objectid = collection[scrapeRun.results[j].row].objectid

\* C30: at the end of a run every row of the collection is counted once as
\* scraped, cached or failed, the results returned hold the cached and the
\* scraped rows in the order of the collection and none of the failed ones,
\* prices.json equals the results returned, and the browser and every page
\* opened are closed, also when the run ended with an error.
C30_Accounting ==
  /\ scrapeRun.pc = "done" =>
       /\ Accounted
       /\ pricesFile = Results(scrapeRun)
  /\ (scrapeRun.pc \in {"done", "threw"} /\ browser.launched) => AllClosed

----------------------------------------------------------------------------
(* Properties of the valuation with statistics outside the five tiers *)

\* the item has statistics and none of them is of one of the five tiers
OnlyOtherTiers ==
  /\ HasMarketData
  /\ \A k \in 1..Len(CONDITION_PRIORITY) : RecordOf(CONDITION_PRIORITY[k]) = 0

\* C23: an item with statistics none of which is of New, Like New, Very
\* Good, Good or Acceptable is valued from the first record of its
\* statistics: the estimate is that record's weighted mean, the tier used is
\* its label, and the source carries the fallback marker.
C23_OnlyUnknown ==
  (Valued /\ OnlyOtherTiers) =>
     /\ locals.estimatedValueUSD = game.calc[1].weightedMean
     /\ locals.usedCondition = game.calc[1].condition
     /\ csvLines[1].condition = game.calc[1].condition
     /\ csvLines[1].source = StrMarket \o Kebab(game.calc[1].condition) \o StrFallbackMark

\* statistics for Unknown and Damaged only: the record of Unknown is used
C23_Witness ==
  /\ Valued
  /\ OnlyOtherTiers
  /\ Len(game.calc) = 2
  /\ game.calc[1].condition = Condition_UNKNOWN
  /\ game.calc[2].condition = Condition_DAMAGED
  /\ locals.usedCondition = Condition_UNKNOWN
  /\ locals.estimatedValueUSD = 20
  /\ csvLines[1].source =
       <<"m","a","r","k","e","t",":","u","n","k","n","o","w","n",
         "(","f","a","l","l","b","a","c","k",")">>

----------------------------------------------------------------------------
(* Properties of the statistics of one tier group *)

\* calculateStats has run on a list of sales and its groups are at hand
StatsCalled == call.op = "calculateStats" /\ call.groups # <<>>

\* the k-th smallest of the values, found by counting and not by sorting
OrderStatistic(values, k) ==
  CHOOSE v \in {values[i] : i \in 1..Len(values)} :
    /\ Cardinality({i \in 1..Len(values) : values[i] < v}) < k
    /\ Cardinality({i \in 1..Len(values) : values[i] <= v}) >= k

\* the record that calculateStats returned for a group
StatsOfGroup(g) ==
  call.stats[CHOOSE k \in 1..Len(call.stats) : call.stats[k].condition = g.condition]

\* the sum of the two middle values of a group of even count
MiddleSum(g) ==
  OrderStatistic(g.usdValues, Len(g.usdValues) \div 2)
  + OrderStatistic(g.usdValues, Len(g.usdValues) \div 2 + 1)

OddMedian(g) ==
  Len(g.usdValues) % 2 = 1 =>
    StatsOfGroup(g).median = OrderStatistic(g.usdValues, (Len(g.usdValues) + 1) \div 2)

\* C24 as stated: the median of every tier group is the middle element of
\* its sorted base values for an odd count and exactly the average of the two
\* middle elements for an even count, whatever the order of the observations
C24_ExactMedian ==
  StatsCalled =>
    \A k \in 1..Len(call.groups) :
      /\ OddMedian(call.groups[k])
      /\ Len(call.groups[k].usdValues) % 2 = 0 =>
           2 * StatsOfGroup(call.groups[k]).median = MiddleSum(call.groups[k])

\* C24 amended: for an even count the median is the average of the two
\* middle elements rounded to the nearest whole unit, a half rounded up; for
\* an odd count it is the middle element; the order of the observations
\* plays no part
C24_RoundedMedian ==
  StatsCalled =>
    \A k \in 1..Len(call.groups) :
      /\ OddMedian(call.groups[k])
      /\ Len(call.groups[k].usdValues) % 2 = 0 =>
           2 * StatsOfGroup(call.groups[k]).median - MiddleSum(call.groups[k]) \in {0, 1}

\* one tier with sales of 2 and then 1 base units: the median is 2
C24_Witness ==
  /\ StatsCalled
  /\ Len(call.groups) = 1
  /\ call.groups[1].usdValues = <<2, 1>>
  /\ call.stats[1].median = 2

\* 100 times s[floor(i)] + (s[ceil(i)] - s[floor(i)]) * (i - floor(i)) for
\* i = (p / 100) * (n - 1), from the order statistics of the group
Interpolated(values, p) ==
  LET index == p * (Len(values) - 1)
      lower == index \div 100
      upper == IF index % 100 = 0 THEN lower ELSE lower + 1
      atLower == OrderStatistic(values, lower + 1)
      atUpper == OrderStatistic(values, upper + 1)
  IN 100 * atLower + (atUpper - atLower) * (index - 100 * lower)

SingleValue(g) ==
  Len(g.usdValues) = 1 =>
    /\ StatsOfGroup(g).percentile25 = g.usdValues[1]
    /\ StatsOfGroup(g).percentile75 = g.usdValues[1]

IqrOfGroup(g) ==
  g.iqr = StatsOfGroup(g).percentile75 - StatsOfGroup(g).percentile25

\* C25 as stated: the 25th and 75th percentile of every tier group are
\* exactly the linear interpolation between the order statistics at the floor
\* and the ceiling of (p / 100) * (n - 1); a single value is both percentiles;
\* the IQR of the dispersion weight is their difference
C25_ExactPercentiles ==
  StatsCalled =>
    \A k \in 1..Len(call.groups) :
      /\ 100 * StatsOfGroup(call.groups[k]).percentile25
           = Interpolated(call.groups[k].usdValues, 25)
      /\ 100 * StatsOfGroup(call.groups[k]).percentile75
           = Interpolated(call.groups[k].usdValues, 75)
      /\ SingleValue(call.groups[k])
      /\ IqrOfGroup(call.groups[k])

\* the whole number nearest to x / 100, a half rounded up
NearestWhole(n, x) == 0 <= x + 50 - 100 * n /\ x + 50 - 100 * n < 100

\* C25 amended: each percentile is that interpolation rounded to the nearest
\* whole unit, a half rounded up; a single value is both percentiles; the IQR
\* of the dispersion weight is the difference of the two rounded percentiles
C25_RoundedPercentiles ==
  StatsCalled =>
    \A k \in 1..Len(call.groups) :
      /\ NearestWhole(StatsOfGroup(call.groups[k]).percentile25,
                      Interpolated(call.groups[k].usdValues, 25))
      /\ NearestWhole(StatsOfGroup(call.groups[k]).percentile75,
                      Interpolated(call.groups[k].usdValues, 75))
      /\ SingleValue(call.groups[k])
      /\ IqrOfGroup(call.groups[k])

\* one tier with sales of 300, 1 and 2 base units: the percentiles 1.5 and
\* 151 come out as 2 and 151, and the IQR as 149
C25_Witness ==
  /\ StatsCalled
  /\ Len(call.groups) = 1
  /\ call.groups[1].usdValues = <<300, 1, 2>>
  /\ call.stats[1].percentile25 = 2
  /\ call.stats[1].percentile75 = 151
  /\ call.groups[1].iqr = 149

----------------------------------------------------------------------------
(* Properties of the three weights *)

\* the observations of a group whose currency belongs to the region
RegionalIn(g, region) ==
  {i \in 1..Len(g.currencies) : g.currencies[i] \in REGION_CURRENCIES[region]}

\* C26: in a tier group with at least 2 observations in a currency of the
\* selected region, those observations weigh 1.0 and the others 0.3; in a
\* group with fewer, every observation weighs 1.0; only the observations of
\* the group itself count, and no region weight is other than 0.3 or 1.0
C26_RegionWeight ==
  StatsCalled =>
    \A k \in 1..Len(call.groups) :
      \A i \in 1..Len(call.groups[k].weights) :
        /\ call.groups[k].weights[i].currencyWeight \in {(3 * W) \div 10, W}
        /\ call.groups[k].weights[i].currencyWeight = W
             <=> \/ Cardinality(RegionalIn(call.groups[k], call.region)) < 2
                 \/ i \in RegionalIn(call.groups[k], call.region)

\* Europe, one tier with sales in EUR, SEK and USD: the sale in USD weighs 0.3
C26_Witness ==
  /\ StatsCalled
  /\ call.region = "europe"
  /\ Len(call.groups) = 1
  /\ call.groups[1].currencies = <<"EUR", "SEK", "USD">>
  /\ call.groups[1].weights[1].currencyWeight = W
  /\ call.groups[1].weights[2].currencyWeight = W
  /\ call.groups[1].weights[3].currencyWeight = 3000

PriceWeighed == call.op = "getPriceWeight"

\* exp(-1/2) and exp(-2) in units of 1/W, and the resolution of a weight
ExpHalf == (6065 * W) \div 10000
ExpTwo == (1353 * W) \div 10000
Near(x, y) == Abs(x - y) <= 1

\* the weight at one and at two IQRs from the median, and far away
GaussianPoints(value, median, iqr, weight) ==
  /\ (iqr > 0 /\ Abs(value - median) = iqr) => Near(weight, ExpHalf)
  /\ (iqr > 0 /\ Abs(value - median) = 2 * iqr) => Near(weight, ExpTwo)
  /\ (iqr > 0 /\ Abs(value - median) >= 4 * iqr) => weight = W \div 100

TimeWeighed == call.op = "calculateTimeWeight"

\* the time weight of a sale of the given age
WeightAtAge(age) == calculateTimeWeight(Key(Now.t - age), Now).x

\* 0.5^(age / half-life) by what determines it: a half at one half-life, a
\* quarter at two, half the weight one half-life later, and the square of the
\* weight at twice the age, each to the resolution of a weight
HalvesEveryYear(age, weight) ==
  /\ age = TIME_WEIGHT_HALF_LIFE_MS => weight = W \div 2
  /\ age = 2 * TIME_WEIGHT_HALF_LIFE_MS => weight = W \div 4
  /\ age + TIME_WEIGHT_HALF_LIFE_MS <= MaxAge
       => Near(2 * WeightAtAge(age + TIME_WEIGHT_HALF_LIFE_MS), weight)
  /\ 2 * age <= MaxAge
       => Abs(W * WeightAtAge(2 * age) - weight * weight) <= 4 * W

\* C28: the time weight of a sale that has a timestamp is exactly 1.0 for an
\* age of 0 or less and 0.5^(age / one year) for a positive age: 0.5 at one
\* half-life, 0.25 at two, above 0 and at most 1.0, and no greater for an
\* older sale
C28_TimeWeight ==
  /\ TimeWeighed =>
       /\ ~call.weight.nan
       /\ call.value <= 0 => call.weight.x = W
       /\ call.value > 0 => HalvesEveryYear(call.value, call.weight.x)
       /\ call.weight.x > 0
       /\ call.weight.x <= W
       /\ call.value < MaxAge => WeightAtAge(call.value + 1) <= call.weight.x
  /\ StatsCalled =>
       \A k \in 1..Len(call.groups) :
         \A i \in 1..Len(call.groups[k].weights) :
           call.groups[k].saleDates[i].valid =>
             /\ ~call.groups[k].weights[i].timeWeight.nan
             /\ call.groups[k].weights[i].timeWeight.x
                  = WeightAtAge(Now.t - call.groups[k].saleDates[i].t)
             /\ call.groups[k].weights[i].timeWeight.x > 0
             /\ call.groups[k].weights[i].timeWeight.x <= W

\* a sale two half-lives old weighs 0.25
C28_Witness ==
  /\ TimeWeighed
  /\ call.value = 2 * TIME_WEIGHT_HALF_LIFE_MS
  /\ call.weight.x = 2500

----------------------------------------------------------------------------
(* Properties of the order of the statistics *)

\* C29: in every record returned by calculateStats, lowest <= percentile25
\* <= median <= percentile75 <= highest, the mean and the weighted mean lie
\* between lowest and highest, and the recent-sales count lies between 0 and
\* the count; the weighted mean of a group of positive values is not 0
C29_Ordering ==
  StatsCalled =>
    \A k \in 1..Len(call.stats) :
      /\ call.stats[k].lowest <= call.stats[k].percentile25
      /\ call.stats[k].percentile25 <= call.stats[k].median
      /\ call.stats[k].median <= call.stats[k].percentile75
      /\ call.stats[k].percentile75 <= call.stats[k].highest
      /\ call.stats[k].lowest <= call.stats[k].mean
      /\ call.stats[k].mean <= call.stats[k].highest
      /\ call.stats[k].lowest <= call.stats[k].weightedMean
      /\ call.stats[k].weightedMean <= call.stats[k].highest
      /\ 0 <= call.stats[k].recentSalesCount
      /\ call.stats[k].recentSalesCount <= call.stats[k].count

============================================================================
